---------------------------- MODULE Spec2Model ----------------------------
(***************************************************************************)
(* Shadow Chronicles: the command parser, the room store and the command   *)
(* router of the game engine, with the WebSocket transport that feeds it.  *)
(* Strings are TLA+ strings; the text operations the code uses             *)
(* (toLowerCase, trim, split, includes, join) are computed character by    *)
(* character.                                                              *)
(***************************************************************************)
EXTENDS Integers, Sequences, FiniteSets, TLC

(***************************************************************************)
(* String primitives                                                       *)
(***************************************************************************)
Char(str, i) == SubSeq(str, i, i)

UpperCase == <<"A","B","C","D","E","F","G","H","I","J","K","L","M",
               "N","O","P","Q","R","S","T","U","V","W","X","Y","Z">>
LowerCase == <<"a","b","c","d","e","f","g","h","i","j","k","l","m",
               "n","o","p","q","r","s","t","u","v","w","x","y","z">>

lowerChar(c) ==
    IF \E k \in 1..26 : UpperCase[k] = c
    THEN LowerCase[CHOOSE k \in 1..26 : UpperCase[k] = c]
    ELSE c

RECURSIVE toLowerCase(_)
toLowerCase(str) ==
    IF str = "" THEN ""
    ELSE lowerChar(Char(str, 1)) \o toLowerCase(SubSeq(str, 2, Len(str)))

isSpace(c) == c \in {" ", "\t", "\n", "\r"}

RECURSIVE trimStart(_)
trimStart(str) ==
    IF str # "" /\ isSpace(Char(str, 1))
    THEN trimStart(SubSeq(str, 2, Len(str)))
    ELSE str

RECURSIVE trimEnd(_)
trimEnd(str) ==
    IF str # "" /\ isSpace(Char(str, Len(str)))
    THEN trimEnd(SubSeq(str, 1, Len(str) - 1))
    ELSE str

trim(str) == trimEnd(trimStart(str))

\* String.prototype.includes
includes(str, part) ==
    \E i \in 1..(Len(str) - Len(part) + 1) : SubSeq(str, i, i + Len(part) - 1) = part

startsWith(str, prefix) ==
    Len(prefix) <= Len(str) /\ SubSeq(str, 1, Len(prefix)) = prefix

\* String.prototype.indexOf, 1-based; 0 when absent
indexOf(str, part) ==
    IF includes(str, part)
    THEN CHOOSE i \in 1..(Len(str) - Len(part) + 1) :
            /\ SubSeq(str, i, i + Len(part) - 1) = part
            /\ \A j \in 1..(i - 1) : SubSeq(str, j, j + Len(part) - 1) # part
    ELSE 0

\* String.prototype.split with a non-empty separator
RECURSIVE split(_, _)
split(str, sep) ==
    LET at == indexOf(str, sep)
    IN  IF at = 0 THEN <<str>>
        ELSE <<SubSeq(str, 1, at - 1)>> \o split(SubSeq(str, at + Len(sep), Len(str)), sep)

\* Array.prototype.join
RECURSIVE join(_, _)
join(parts, sep) ==
    IF parts = <<>> THEN ""
    ELSE IF Len(parts) = 1 THEN parts[1]
    ELSE parts[1] \o sep \o join(Tail(parts), sep)

\* Array.prototype.filter

\* Array.prototype.findIndex, 1-based; 0 when no element matches
findIndex(matches) ==
    IF \E i \in 1..Len(matches) : matches[i]
    THEN CHOOSE i \in 1..Len(matches) : matches[i] /\ \A j \in 1..(i - 1) : ~matches[j]
    ELSE 0

removeAt(seq, i) == SubSeq(seq, 1, i - 1) \o SubSeq(seq, i + 1, Len(seq))

seqIncludes(seq, x) == \E i \in 1..Len(seq) : seq[i] = x

\* The value JavaScript calls undefined (an absent optional field)
undefined == "<undefined>"

(***************************************************************************)
(* Command parser                                                          *)
(***************************************************************************)
VerbTable == {
    <<"go", "go">>, <<"walk", "go">>, <<"run", "go">>, <<"move", "go">>,
    <<"travel", "go">>, <<"head", "go">>, <<"n", "go north">>, <<"north", "go north">>,
    <<"s", "go south">>, <<"south", "go south">>, <<"e", "go east">>,
    <<"east", "go east">>, <<"w", "go west">>, <<"west", "go west">>, <<"u", "go up">>,
    <<"up", "go up">>, <<"d", "go down">>, <<"down", "go down">>, <<"enter", "go">>,
    <<"exit", "go">>, <<"climb", "climb">>, <<"jump", "jump">>, <<"swim", "swim">>,
    <<"dive", "dive">>, <<"look", "look">>, <<"l", "look">>, <<"examine", "examine">>,
    <<"x", "examine">>, <<"inspect", "examine">>, <<"read", "read">>,
    <<"search", "search">>, <<"listen", "listen">>, <<"smell", "smell">>,
    <<"taste", "taste">>, <<"take", "take">>, <<"get", "take">>, <<"grab", "take">>,
    <<"pick", "take">>, <<"pickup", "take">>, <<"drop", "drop">>, <<"leave", "drop">>,
    <<"put", "put">>, <<"place", "put">>, <<"insert", "insert">>, <<"remove", "remove">>,
    <<"wear", "equip">>, <<"equip", "equip">>, <<"wield", "equip">>,
    <<"unequip", "unequip">>, <<"unwield", "unequip">>, <<"doff", "unequip">>,
    <<"open", "open">>, <<"close", "close">>, <<"shut", "close">>, <<"lock", "lock">>,
    <<"unlock", "unlock">>, <<"push", "push">>, <<"pull", "pull">>, <<"turn", "turn">>,
    <<"rotate", "turn">>, <<"break", "break">>, <<"smash", "break">>, <<"hit", "attack">>,
    <<"attack", "attack">>, <<"fight", "attack">>, <<"kill", "attack">>,
    <<"stab", "attack">>, <<"strike", "attack">>, <<"touch", "touch">>, <<"rub", "rub">>,
    <<"use", "use">>, <<"light", "light">>, <<"extinguish", "extinguish">>,
    <<"burn", "burn">>, <<"pour", "pour">>, <<"fill", "fill">>, <<"drink", "drink">>,
    <<"eat", "eat">>, <<"throw", "throw">>, <<"toss", "throw">>, <<"raise", "raise">>,
    <<"lower", "lower">>, <<"ring", "ring">>, <<"knock", "knock">>, <<"press", "press">>,
    <<"wave", "wave">>, <<"tie", "tie">>, <<"untie", "untie">>, <<"say", "say">>,
    <<"speak", "say">>, <<"shout", "shout">>, <<"yell", "shout">>, <<"ask", "ask">>,
    <<"tell", "tell">>, <<"talk", "talk">>, <<"pray", "pray">>, <<"cast", "cast">>,
    <<"think", "think">>, <<"wait", "wait">>, <<"z", "wait">>, <<"sleep", "sleep">>,
    <<"rest", "rest">>, <<"inventory", "inventory">>, <<"i", "inventory">>,
    <<"inv", "inventory">>, <<"help", "help">>, <<"?", "help">>, <<"save", "save">>,
    <<"load", "load">>, <<"restore", "load">>, <<"quit", "quit">>, <<"q", "quit">>,
    <<"restart", "restart">>, <<"reset", "restart">>, <<"status", "status">>,
    <<"stats", "status">>, <<"score", "score">>, <<"map", "map">>, <<"hint", "hint">>,
    <<"hints", "hint">>
}

VERB_SYNONYMS ==
    [k \in {p[1] : p \in VerbTable} |-> (CHOOSE p \in VerbTable : p[1] = k)[2]]

PREPOSITIONS == {"in", "into", "on", "onto", "with", "using", "to", "at",
                 "from", "off", "under", "behind", "through", "about", "around"}

ARTICLES == {"a", "an", "the", "some", "my"}

\* split(/\s+/) and drop the empty strings
RECURSIVE tokenize(_)
tokenize(input) ==
    LET str == trimStart(input)
    IN  IF str = "" THEN <<>>
        ELSE LET n == IF \E i \in 1..Len(str) : isSpace(Char(str, i))
                      THEN (CHOOSE i \in 1..Len(str) :
                               /\ isSpace(Char(str, i))
                               /\ \A j \in 1..(i - 1) : ~isSpace(Char(str, j))) - 1
                      ELSE Len(str)
             IN  <<SubSeq(str, 1, n)>> \o tokenize(SubSeq(str, n + 1, Len(str)))


ParsedCommand(verb, noun, preposition, indirectObject, raw, valid, errorMessage) ==
    [verb |-> verb, noun |-> noun, preposition |-> preposition,
     indirectObject |-> indirectObject, raw |-> raw, valid |-> valid,
     errorMessage |-> errorMessage]

\* The property names every object inherits from Object.prototype that a
\* lower-cased word can spell
inheritedKeys == {"constructor", "__proto__"}

\* The exception a call of something that is no function raises
TypeError == "<TypeError>"

\* parse leaving by a TypeError instead of returning a ParsedCommand
throws(input) ==
    ParsedCommand(TypeError, undefined, undefined, undefined, input, FALSE, undefined)
threw(command) == command.verb = TypeError

\* "" || undefined
orUndefined(str) == IF str = "" THEN undefined ELSE str

\* A shortcut that keeps the letter the player typed
directionOf_AsTyped(directionShortcut) == SubSeq(directionShortcut, 4, 4)

\* directionShortcut.split(' ')[1]
directionOf(directionShortcut) == split(directionShortcut, " ")[2]

\* A search that runs on to the last preposition
prepositionSearch_Last(matches) ==
    IF \E i \in 1..Len(matches) : matches[i]
    THEN CHOOSE i \in 1..Len(matches) :
            matches[i] /\ \A j \in (i + 1)..Len(matches) : ~matches[j]
    ELSE 0

\* The loop over objectTokens that breaks at the first preposition
prepositionSearch(matches) == findIndex(matches)

\* A lookup that hands back the word as it was typed
canonicalVerbOf_AsTyped(firstToken) == firstToken

\* VERB_SYNONYMS[firstToken] for a key of the table
canonicalVerbOf(firstToken) == VERB_SYNONYMS[firstToken]

parse(input) ==
    LET normalized == trim(toLowerCase(input))
        tokens == tokenize(normalized)
        firstToken == tokens[1]
        canonicalVerb == canonicalVerbOf(firstToken)
        objectTokens == SelectSeq(Tail(tokens), LAMBDA t : t \notin ARTICLES)
        prepositionIndex == prepositionSearch([index \in 1..Len(objectTokens) |->
            objectTokens[index] \in PREPOSITIONS])
    IN  IF normalized = "" THEN
            ParsedCommand("", undefined, undefined, undefined, input, FALSE,
                          "Please enter a command.")
        ELSE IF Len(tokens) = 0 THEN
            ParsedCommand("", undefined, undefined, undefined, input, FALSE,
                          "I don't understand that.")
        ELSE IF firstToken \in inheritedKeys THEN
            \* VERB_SYNONYMS[firstToken] is the inherited value, which is truthy
            \* and has no startsWith
            throws(input)
        ELSE IF firstToken \in DOMAIN VERB_SYNONYMS /\ startsWith(canonicalVerb, "go ") THEN
            ParsedCommand("go", directionOf(canonicalVerb), undefined, undefined,
                          input, TRUE, undefined)
        ELSE IF firstToken \notin DOMAIN VERB_SYNONYMS THEN
            ParsedCommand(firstToken, undefined, undefined, undefined, input, FALSE,
                          "I don't know how to \"" \o firstToken \o "\".")
        ELSE IF Len(tokens) = 1 THEN
            ParsedCommand(canonicalVerb, undefined, undefined, undefined, input, TRUE,
                          undefined)
        ELSE IF Len(objectTokens) = 0 THEN
            ParsedCommand(canonicalVerb, undefined, undefined, undefined, input, TRUE,
                          undefined)
        ELSE IF prepositionIndex > 1 THEN
            ParsedCommand(canonicalVerb,
                          orUndefined(join(SubSeq(objectTokens, 1, prepositionIndex - 1), " ")),
                          objectTokens[prepositionIndex],
                          orUndefined(join(SubSeq(objectTokens, prepositionIndex + 1,
                                                  Len(objectTokens)), " ")),
                          input, TRUE, undefined)
        ELSE IF prepositionIndex = 1 THEN
            ParsedCommand(canonicalVerb,
                          orUndefined(join(Tail(objectTokens), " ")),
                          objectTokens[1], undefined, input, TRUE, undefined)
        ELSE
            ParsedCommand(canonicalVerb, orUndefined(join(objectTokens, " ")),
                          undefined, undefined, input, TRUE, undefined)

(***************************************************************************)
(* Room data handed to loadRooms: four rooms, and one exit whose           *)
(* destination, ROOM_404, is no room of the data.                          *)
(***************************************************************************)
NoRequirement == [type |-> "none", id |-> "", value |-> 0]

RoomExit(to, visible, requires, blockedMessage, travelText) ==
    [to |-> to, visible |-> visible, requires |-> requires,
     blockedMessage |-> blockedMessage, travelText |-> travelText]

RoomObject(id, name, synonyms, description, examineText, visibility, requiresLight, takeable, equipmentSlot, ability_learned) ==
    [id |-> id, name |-> name, synonyms |-> synonyms, description |-> description,
     examineText |-> examineText, visibility |-> visibility,
     requiresLight |-> requiresLight, takeable |-> takeable,
     equipmentSlot |-> equipmentSlot,
     stateChanges |-> [ability_learned |-> ability_learned]]

RoomNPC(id, name, description, hostile, spawnConditions) ==
    [id |-> id, name |-> name, description |-> description, hostile |-> hostile,
     spawnConditions |-> spawnConditions]

Lamp  == RoomObject("lamp", "Brass Lamp", <<"lantern">>, "A brass lamp.", "",
                    "always", FALSE, TRUE, "light_source", "")
Torch == RoomObject("torch", "Torch", <<>>, "A pitch torch.", "It smells of tar.",
                    "always", FALSE, TRUE, "light_source", "firemaking")
Mural == RoomObject("mural", "Mural", <<"painting">>, "A faded mural.",
                    "The mural shows how to climb.", "always", FALSE, FALSE,
                    undefined, "climbing")
Key   == RoomObject("key", "Rusty Key", <<>>, "A rusty key.", "", "conditional",
                    TRUE, TRUE, undefined, "")
Gem   == RoomObject("gem", "Gem", <<>>, "A green gem.", "", "hidden", FALSE, TRUE,
                    undefined, "")

Lurker == RoomNPC("lurker", "Lurker", "A lurker stirs in the dark.", TRUE,
                  <<"darkness">>)
Guide  == RoomNPC("guide", "Guide", "A guide nods at you.", FALSE,
                  <<"light_present">>)

RoomData ==
    [ROOM_001 |->
        [identity |-> [id |-> "ROOM_001"],
         descriptions |-> [initial |-> "You awaken in a cryo chamber.",
                           long |-> "A cold cryo chamber.",
                           short |-> "Cryo chamber.",
                           visited |-> "The cryo chamber again.",
                           dark |-> "It is pitch black.",
                           dynamicVariants |-> <<<<"climbing", "Handholds mark the wall.">>,
                                               <<"firemaking", "Scorch marks dot the floor.">>>>],
         lighting |-> [isLit |-> TRUE],
         exits |-> [north |-> RoomExit("ROOM_002", TRUE, NoRequirement, "", "You head north."),
                    east  |-> RoomExit("ROOM_404", TRUE, NoRequirement, "", ""),
                    up    |-> RoomExit("ROOM_003", TRUE,
                                       [type |-> "skill", id |-> "climbing", value |-> 0],
                                       "", "")],
         exitOrder |-> <<"north", "east", "up">>,
         objects |-> <<Lamp, Torch, Mural>>,
         npcs |-> <<>>,
         state |-> [visited |-> FALSE, climbing |-> FALSE]],
     ROOM_002 |->
        [identity |-> [id |-> "ROOM_002"],
         descriptions |-> [initial |-> "A tunnel opens before you.",
                           long |-> "A long service tunnel.",
                           short |-> "Tunnel.",
                           visited |-> "",
                           dark |-> "Darkness fills the tunnel.",
                           dynamicVariants |-> <<>>],
         lighting |-> [isLit |-> FALSE],
         exits |-> [south |-> RoomExit("ROOM_001", TRUE, NoRequirement, "", ""),
                    north |-> RoomExit("ROOM_003", TRUE,
                                       [type |-> "item", id |-> "key", value |-> 0],
                                       "The door is locked.", "")],
         exitOrder |-> <<"south", "north">>,
         objects |-> <<Key>>,
         npcs |-> <<Lurker>>,
         state |-> [visited |-> TRUE, climbing |-> FALSE]],
     ROOM_003 |->
        [identity |-> [id |-> "ROOM_003"],
         descriptions |-> [initial |-> "You step onto a platform.",
                           long |-> "A wide platform.",
                           short |-> "Platform.",
                           visited |-> "",
                           dark |-> "You see nothing.",
                           dynamicVariants |-> <<>>],
         lighting |-> [isLit |-> TRUE],
         exits |-> [down |-> RoomExit("ROOM_001", TRUE, NoRequirement, "", ""),
                    west |-> RoomExit("ROOM_002", FALSE,
                                      [type |-> "state", id |-> "gate_open", value |-> 0],
                                      "", ""),
                    east |-> RoomExit("ROOM_001", TRUE,
                                      [type |-> "stat", id |-> "Physical", value |-> 15],
                                      "", ""),
                    north |-> RoomExit("ROOM_002", TRUE,
                                       [type |-> "state", id |-> "lamp_on", value |-> 0],
                                       "", ""),
                    south |-> RoomExit("ROOM_001", TRUE,
                                       [type |-> "state", id |-> "climbing", value |-> 0],
                                       "A hatch bars the way.", ""),
                    hatch |-> RoomExit("ROOM_004", TRUE, NoRequirement, "", "")],
         exitOrder |-> <<"down", "west", "east", "north", "south", "hatch">>,
         objects |-> <<Gem>>,
         npcs |-> <<Guide>>,
         state |-> [visited |-> FALSE, climbing |-> FALSE]],
     ROOM_004 |->
        [identity |-> [id |-> "ROOM_004"],
         descriptions |-> [initial |-> "You drop into a bare vault.",
                           long |-> "A bare vault.",
                           short |-> "Vault.",
                           visited |-> "The vault again.",
                           dark |-> "The vault is dark.",
                           dynamicVariants |-> <<>>],
         lighting |-> [isLit |-> TRUE],
         exits |-> [out |-> RoomExit("ROOM_003", FALSE, NoRequirement, "", "")],
         exitOrder |-> <<"out">>,
         objects |-> <<>>,
         npcs |-> <<>>,
         state |-> [visited |-> FALSE, climbing |-> FALSE]]]

\* The order in which loadRooms puts the rooms into the Map
RoomOrder == <<"ROOM_001", "ROOM_002", "ROOM_003", "ROOM_004">>

(***************************************************************************)
(* State                                                                   *)
(***************************************************************************)
VARIABLES
    startingRoom,  \* WebSocketHandler.startingRoom
    rooms,         \* GameEngine.rooms: id -> the room's mutable part, taken and state
    worldState,    \* GameEngine.worldState
    sessions,      \* WebSocketHandler.sessions: id -> [player, inCombat, currentEnemy]
    result,        \* the CommandResult of the latest processCommand call, and who called
    sent           \* the messages the latest transport handler sent to its session

vars == <<startingRoom, rooms, worldState, sessions, result, sent>>

(***************************************************************************)
(* Game engine                                                             *)
(***************************************************************************)
baseHp == 100
baseMp == 50
restHpRecovery == 25
restMpRecovery == 15

createNewPlayer(name, startingRoomId) ==
    [name |-> name, gold |-> 0, hp |-> baseHp, maxHp |-> baseHp, mp |-> baseMp,
     maxMp |-> baseMp, xp |-> 0, level |-> 1,
     stats |-> [Physical |-> 10, Mental |-> 10, Resilience |-> 10],
     inventory |-> <<>>, equippedItems |-> <<>>, statusEffects |-> <<>>,
     skills |-> <<>>, location |-> startingRoomId, notes |-> <<>>,
     visitedRooms |-> <<>>, flags |-> <<>>]

\* loadRooms: the store entry of one room record
loadRoom(id) ==
    [taken |-> [o \in {RoomData[id].objects[i].id : i \in 1..Len(RoomData[id].objects)}
                    |-> FALSE],
     state |-> RoomData[id].state]

\* equippedItems holds its slots in insertion order, as Object.entries reads them
slotGet(equippedItems, slot) ==
    IF \E i \in 1..Len(equippedItems) : equippedItems[i].slot = slot
    THEN equippedItems[CHOOSE i \in 1..Len(equippedItems) : equippedItems[i].slot = slot].id
    ELSE undefined

slotSet(equippedItems, slot, id) ==
    IF \E i \in 1..Len(equippedItems) : equippedItems[i].slot = slot
    THEN [i \in 1..Len(equippedItems) |->
             IF equippedItems[i].slot = slot THEN [slot |-> slot, id |-> id]
             ELSE equippedItems[i]]
    ELSE Append(equippedItems, [slot |-> slot, id |-> id])

\* An unequip that leaves the id in its slot
slotDelete_KeepsId(equippedItems, slot) == equippedItems

slotDelete(equippedItems, slot) == SelectSeq(equippedItems, LAMBDA e : e.slot # slot)

\* player.flags[key], undefined reading as false
flagOn(flags, key) == key \in DOMAIN flags /\ flags[key]

flagSet(flags, key, value) ==
    [k \in DOMAIN flags \cup {key} |-> IF k = key THEN value ELSE flags[k]]

hasRoom(roomId) == roomId \in DOMAIN rooms

\* The rooms of the store, in Map order
storeOrder == SelectSeq(RoomOrder, LAMBDA id : id \in DOMAIN rooms)

\* Light from an equipped light source whether or not it is switched on
hasLight_WhenEquipped(roomId, player) ==
    \/ RoomData[roomId].lighting.isLit
    \/ slotGet(player.equippedItems, "light_source") # undefined

hasLight(roomId, player) ==
    \/ RoomData[roomId].lighting.isLit
    \/ /\ slotGet(player.equippedItems, "light_source") # undefined
       /\ flagOn(player.flags, slotGet(player.equippedItems, "light_source") \o "_on")

\* Spawn conditions that always hold
checkNpcSpawnConditions_Unconditional(conditions, roomId, player) == TRUE

checkNpcSpawnConditions(conditions, roomId, player) ==
    \A i \in 1..Len(conditions) :
        /\ conditions[i] = "darkness" => ~hasLight(roomId, player)
        /\ conditions[i] = "light_present" => hasLight(roomId, player)

\* The predicate the handlers pass to room.objects.find for a typed noun
matchesObject(o, noun) ==
    \/ o.id = noun
    \/ includes(toLowerCase(o.name), toLowerCase(noun))
    \/ \E i \in 1..Len(o.synonyms) : includes(toLowerCase(o.synonyms[i]), toLowerCase(noun))

\* The predicate the handlers pass to inventory.find / findIndex
matchesItem(item, noun) ==
    item.id = noun \/ includes(toLowerCase(item.name), toLowerCase(noun))

\* A listing that does not look at the taken flags
visibleObjects_IncludingTaken(roomId, player) ==
    SelectSeq(RoomData[roomId].objects,
              LAMBDA obj : \/ obj.visibility = "always"
                           \/ /\ obj.visibility = "conditional"
                              /\ (~obj.requiresLight \/ hasLight(roomId, player)))

visibleObjects(roomId, player) ==
    SelectSeq(RoomData[roomId].objects,
              LAMBDA obj : /\ ~rooms[roomId].taken[obj.id]
                           /\ \/ obj.visibility = "always"
                              \/ /\ obj.visibility = "conditional"
                                 /\ (~obj.requiresLight \/ hasLight(roomId, player)))

\* A listing of every exit, hidden ones too
visibleExits_All(roomId) == RoomData[roomId].exitOrder

visibleExits(roomId) ==
    SelectSeq(RoomData[roomId].exitOrder,
              LAMBDA direction : RoomData[roomId].exits[direction].visible)

visibleNpcs(roomId, player) ==
    SelectSeq(RoomData[roomId].npcs,
              LAMBDA npc : checkNpcSpawnConditions(npc.spawnConditions, roomId, player))

names(seq) == [i \in 1..Len(seq) |-> seq[i].name]

RECURSIVE npcParagraphs(_)
npcParagraphs(npcs) ==
    IF npcs = <<>> THEN ""
    ELSE "\n\n" \o Head(npcs).description \o npcParagraphs(Tail(npcs))

\* A choice that takes the visited text even when it is empty
baseDescription_NoFallback(roomId, player, verbose) ==
    LET room == RoomData[roomId]
        visited == seqIncludes(player.visitedRooms, room.identity.id)
    IN  IF ~room.lighting.isLit /\ hasLight(roomId, player) THEN room.descriptions.long
        ELSE IF verbose \/ ~visited
             THEN (IF visited THEN room.descriptions.long ELSE room.descriptions.initial)
             ELSE room.descriptions.visited

\* The text chosen before the dynamic variants are looked at
baseDescription(roomId, player, verbose) ==
    LET room == RoomData[roomId]
        visited == seqIncludes(player.visitedRooms, room.identity.id)
    IN  IF ~room.lighting.isLit /\ hasLight(roomId, player) THEN room.descriptions.long
        ELSE IF verbose \/ ~visited
             THEN (IF visited THEN room.descriptions.long ELSE room.descriptions.initial)
             ELSE (IF room.descriptions.visited # "" THEN room.descriptions.visited
                   ELSE room.descriptions.short)

\* The first dynamic variant, in declared order, whose room-state flag is set
dynamicVariant(roomId) ==
    LET variants == RoomData[roomId].descriptions.dynamicVariants
        active(v) == v[1] \in DOMAIN rooms[roomId].state /\ rooms[roomId].state[v[1]]
        at == findIndex([index \in 1..Len(variants) |-> active(variants[index])])
    IN  IF at = 0 THEN undefined ELSE variants[at][2]

getRoomDescription(roomId, player, verbose) ==
    LET room == RoomData[roomId]
        light == hasLight(roomId, player)
        description == IF dynamicVariant(roomId) # undefined THEN dynamicVariant(roomId)
                       ELSE baseDescription(roomId, player, verbose)
        objects == visibleObjects(roomId, player)
        exits == visibleExits(roomId)
    IN  IF ~light THEN room.descriptions.dark
        ELSE description
             \o (IF Len(objects) > 0
                 THEN "\n\nYou can see: " \o join(names(objects), ", ") ELSE "")
             \o (IF Len(exits) > 0 /\ light
                 THEN "\n\nExits: " \o join(exits, ", ") ELSE "")
             \o npcParagraphs(visibleNpcs(roomId, player))

orElse(text, default) == IF text # "" THEN text ELSE default

\* A gate that asks for more than the required stat value
canUseExit_StrictStat(exit, player) ==
    CASE exit.requires.type = "item" ->
            IF \E i \in 1..Len(player.inventory) : player.inventory[i].id = exit.requires.id
            THEN [allowed |-> TRUE, message |-> undefined]
            ELSE [allowed |-> FALSE,
                  message |-> orElse(exit.blockedMessage, "You can't go that way.")]
      [] exit.requires.type = "state" ->
            IF exit.requires.id \in DOMAIN worldState /\ worldState[exit.requires.id]
            THEN [allowed |-> TRUE, message |-> undefined]
            ELSE [allowed |-> FALSE,
                  message |-> orElse(exit.blockedMessage, "The way is blocked.")]
      [] exit.requires.type = "skill" ->
            IF seqIncludes(player.skills, exit.requires.id)
            THEN [allowed |-> TRUE, message |-> undefined]
            ELSE [allowed |-> FALSE,
                  message |-> orElse(exit.blockedMessage, "You lack the required skill.")]
      [] exit.requires.type = "stat" ->
            IF /\ exit.requires.id \in DOMAIN player.stats
               /\ player.stats[exit.requires.id] <= exit.requires.value
            THEN [allowed |-> FALSE,
                  message |-> orElse(exit.blockedMessage, "You're not capable of that.")]
            ELSE [allowed |-> TRUE, message |-> undefined]
      [] OTHER -> [allowed |-> TRUE, message |-> undefined]

\* A gate that reads the player's flags where it should read the world's
canUseExit_PlayerFlag(exit, player) ==
    CASE exit.requires.type = "item" ->
            IF \E i \in 1..Len(player.inventory) : player.inventory[i].id = exit.requires.id
            THEN [allowed |-> TRUE, message |-> undefined]
            ELSE [allowed |-> FALSE,
                  message |-> orElse(exit.blockedMessage, "You can't go that way.")]
      [] exit.requires.type = "state" ->
            IF exit.requires.id \in DOMAIN player.flags /\ player.flags[exit.requires.id]
            THEN [allowed |-> TRUE, message |-> undefined]
            ELSE [allowed |-> FALSE,
                  message |-> orElse(exit.blockedMessage, "The way is blocked.")]
      [] exit.requires.type = "skill" ->
            IF seqIncludes(player.skills, exit.requires.id)
            THEN [allowed |-> TRUE, message |-> undefined]
            ELSE [allowed |-> FALSE,
                  message |-> orElse(exit.blockedMessage, "You lack the required skill.")]
      [] exit.requires.type = "stat" ->
            IF /\ exit.requires.id \in DOMAIN player.stats
               /\ player.stats[exit.requires.id] < exit.requires.value
            THEN [allowed |-> FALSE,
                  message |-> orElse(exit.blockedMessage, "You're not capable of that.")]
            ELSE [allowed |-> TRUE, message |-> undefined]
      [] OTHER -> [allowed |-> TRUE, message |-> undefined]

canUseExit(exit, player) ==
    CASE exit.requires.type = "item" ->
            IF \E i \in 1..Len(player.inventory) : player.inventory[i].id = exit.requires.id
            THEN [allowed |-> TRUE, message |-> undefined]
            ELSE [allowed |-> FALSE,
                  message |-> orElse(exit.blockedMessage, "You can't go that way.")]
      [] exit.requires.type = "state" ->
            IF exit.requires.id \in DOMAIN worldState /\ worldState[exit.requires.id]
            THEN [allowed |-> TRUE, message |-> undefined]
            ELSE [allowed |-> FALSE,
                  message |-> orElse(exit.blockedMessage, "The way is blocked.")]
      [] exit.requires.type = "skill" ->
            IF seqIncludes(player.skills, exit.requires.id)
            THEN [allowed |-> TRUE, message |-> undefined]
            ELSE [allowed |-> FALSE,
                  message |-> orElse(exit.blockedMessage, "You lack the required skill.")]
      [] exit.requires.type = "stat" ->
            IF /\ exit.requires.id \in DOMAIN player.stats
               /\ player.stats[exit.requires.id] < exit.requires.value
            THEN [allowed |-> FALSE,
                  message |-> orElse(exit.blockedMessage, "You're not capable of that.")]
            ELSE [allowed |-> TRUE, message |-> undefined]
      [] OTHER -> [allowed |-> TRUE, message |-> undefined]

(***************************************************************************)
(* Command results                                                         *)
(***************************************************************************)
\* stateChanges is the set of PlayerState keys the result carries: their   
\* values are the live player's; {} stands for a result without the field. 
CommandResult(s, command, success, message, stateChanges, roomChanged, combatTriggered) ==
    [session |-> s, command |-> command, success |-> success, message |-> message,
     stateChanges |-> stateChanges, roomChanged |-> roomChanged,
     combatTriggered |-> combatTriggered]

NoCommand == ParsedCommand("", undefined, undefined, undefined, "", FALSE, undefined)
NoResult == CommandResult("none", NoCommand, FALSE, "", {}, FALSE, FALSE)

\* return { success: false, message } with nothing written
fails(s, command, message) ==
    /\ result' = CommandResult(s, command, FALSE, message, {}, FALSE, FALSE)
    /\ UNCHANGED <<sessions, rooms, worldState>>

\* return { success: true, message } with nothing written
succeeds(s, command, message) ==
    /\ result' = CommandResult(s, command, TRUE, message, {}, FALSE, FALSE)
    /\ UNCHANGED <<sessions, rooms, worldState>>

quoted(noun) == "\"" \o noun \o "\""

(***************************************************************************)
(* The inputs the clients type                                             *)
(***************************************************************************)
CoreInputs == {"look", "n", "s", "go east", "take lamp", "get torch", "take key",
               "take mural", "equip lamp", "wield torch", "unequip lamp", "drop lamp",
               "restart"}

SavedInputs == {"n", "s", "take lamp", "equip lamp", "light lamp", "x mural", "rest",
                "attack lurker", "restart"}

SharedInputs == {"look", "n", "take lamp", "drop lamp", "equip lamp", "unequip lamp", "restart"}

ConfigInputs == {"look", "n", "s", "go east", "restart"}

\* Every direction, the two ways of opening a gated exit, and a direction that
\* is no exit of any room but a property every object inherits
GateInputs == {"n", "s", "e", "w", "u", "d", "go constructor", "take key", "x mural"}

\* Two light sources to carry, equip, switch on and off, between a lit room and
\* a dark one
LightInputs == {"look", "n", "s", "u", "d", "x mural", "take lamp", "get torch",
                "equip lamp", "wield torch", "unequip lamp", "light lamp",
                "extinguish lamp"}

\* Lighting the lamp and learning the skill whose flags are named like the
\* world flags of two gates
ScopeInputs == {"x mural", "take lamp", "equip lamp", "light lamp",
                "extinguish lamp", "u", "d", "n", "s"}

\* Looking around and walking with and without a light, before and after
\* examining the two objects that change a room's description
DescribeInputs == {"look", "x mural", "x torch", "n", "s", "u", "d", "go hatch",
                   "go out", "take lamp", "equip lamp", "light lamp",
                   "restart"}

\* Examining the object that teaches a skill, by id and by synonym, and taking
\* and dropping an object next to it
ExamineInputs == {"look", "x mural", "look at painting", "restart", "take lamp",
                  "drop lamp"}

\* The words and letters that are directions
DirectionTokens == {"n", "north", "s", "south", "e", "east", "w", "west",
                    "u", "up", "d", "down"}

\* The verbs processCommand has a case for
RoutedVerbs == {"look", "go", "take", "drop", "examine", "inventory", "use", "turn",
                "light", "extinguish", "open", "close", "attack", "cast", "rest",
                "help", "restart", "equip", "unequip"}

\* The verbs of the table processCommand has no case for
UnroutedVerbs == {p[2] : p \in VerbTable} \ (RoutedVerbs \cup {"go " \o d : d \in
                    {"north", "south", "east", "west", "up", "down"}})

\* What a player may type: every direction alone and followed by words, every
\* verb without a handler alone and with objects, blank and unknown input, words
\* every object inherits, a few commands that change the game in between, and
\* commands with determiners and with no, one and several prepositions, first,
\* in the middle and last
ParseInputs ==
    DirectionTokens \cup UnroutedVerbs
        \cup {"  N  ", "North now", "s the door", "up to the roof", "d quickly"}
        \cup {"climb wall", "read the mural", "put lamp in box", "say hello",
              "Wait here", "z"}
        \cup {"   ", "xyzzy", "dance wildly", "the lamp", "constructor",
              "__proto__ lamp"}
        \cup {"look", "take lamp", "restart"}
        \cup {"put the lamp in the box on table", "look at the bolt",
              "look at lamp on table", "look at", "take the", "take a the",
              "take rusty bolt", "put lamp in", "use my bolt with an engine",
              "throw some sand at the a guard behind my door"}

\* The switch commands in their three spellings, and turn commands that name
\* no switch position
TurnInputs == {"take lamp", "equip lamp", "n", "s", "light lamp", "extinguish lamp",
               "turn on lamp", "turn lamp on", "turn off lamp", "turn lamp off",
               "light lantern", "turn on the lantern", "turn torch off",
               "extinguish torch", "turn lamp", "turn lamp with key",
               "turn brass lamp", "turn the lamp around"}

\* Every key of the verb table, alone and followed by words
SynonymInputs ==
    {key \o tail : key \in DOMAIN VERB_SYNONYMS, tail \in {"", " foo", " the foo on bar"}}

KnownInputs ==
    CoreInputs \cup SharedInputs \cup ConfigInputs \cup SavedInputs \cup GateInputs
        \cup LightInputs \cup ExamineInputs \cup ParseInputs \cup ScopeInputs
        \cup DescribeInputs \cup SynonymInputs \cup TurnInputs

\* parser.parse, computed once for the inputs above
ParseTable == [i \in KnownInputs |-> parse(i)]
parseInput(input) == IF input \in KnownInputs THEN ParseTable[input] ELSE parse(input)

(***************************************************************************)
(* Command handlers                                                        *)
(***************************************************************************)
\* A look that teaches the skill of an object whenever it is examined
handleLook_TeachesEveryTime(s, command) ==
    LET player == sessions[s].player
        roomId == player.location
        objects == RoomData[roomId].objects
        npcs == RoomData[roomId].npcs
        objAt == findIndex([index \in 1..Len(objects) |->
            LET o == objects[index] IN matchesObject(o, command.noun)])
        obj == objects[objAt]
        skillId == obj.stateChanges.ability_learned
        npcAt == findIndex([index \in 1..Len(npcs) |->
            LET n == npcs[index] IN \/ n.id = command.noun
                                    \/ includes(toLowerCase(n.name),
                                                toLowerCase(command.noun))])
    IN  IF ~hasRoom(roomId) THEN fails(s, command, "Error: You are nowhere.")
        ELSE IF command.noun = undefined THEN
            succeeds(s, command, getRoomDescription(roomId, player, TRUE))
        ELSE IF objAt # 0 THEN
            IF skillId # ""
            THEN /\ rooms' = [rooms EXCEPT ![roomId].state =
                                 [k \in DOMAIN @ \cup {skillId} |->
                                     IF k = skillId THEN TRUE ELSE @[k]]]
                 /\ IF ~seqIncludes(player.skills, skillId)
                    THEN /\ sessions' = [sessions EXCEPT ![s].player.skills =
                                             Append(@, skillId)]
                         /\ result' = CommandResult(s, command, TRUE,
                                          orElse(obj.examineText, obj.description),
                                          {"skills"}, FALSE, FALSE)
                    ELSE /\ result' = CommandResult(s, command, TRUE,
                                          orElse(obj.examineText, obj.description),
                                          {}, FALSE, FALSE)
                         /\ UNCHANGED sessions
                 /\ UNCHANGED worldState
            ELSE succeeds(s, command, orElse(obj.examineText, obj.description))
        ELSE IF npcAt # 0 THEN succeeds(s, command, npcs[npcAt].description)
        ELSE fails(s, command, "You don't see any " \o quoted(command.noun) \o " here.")

handleLook(s, command) ==
    LET player == sessions[s].player
        roomId == player.location
        objects == RoomData[roomId].objects
        npcs == RoomData[roomId].npcs
        objAt == findIndex([index \in 1..Len(objects) |->
            LET o == objects[index] IN matchesObject(o, command.noun)])
        obj == objects[objAt]
        skillId == obj.stateChanges.ability_learned
        npcAt == findIndex([index \in 1..Len(npcs) |->
            LET n == npcs[index] IN \/ n.id = command.noun
                                    \/ includes(toLowerCase(n.name),
                                                toLowerCase(command.noun))])
    IN  IF ~hasRoom(roomId) THEN fails(s, command, "Error: You are nowhere.")
        ELSE IF command.noun = undefined THEN
            succeeds(s, command, getRoomDescription(roomId, player, TRUE))
        ELSE IF objAt # 0 THEN
            IF skillId # "" /\ ~(skillId \in DOMAIN rooms[roomId].state
                                 /\ rooms[roomId].state[skillId])
            THEN /\ rooms' = [rooms EXCEPT ![roomId].state =
                                 [k \in DOMAIN @ \cup {skillId} |->
                                     IF k = skillId THEN TRUE ELSE @[k]]]
                 /\ IF ~seqIncludes(player.skills, skillId)
                    THEN /\ sessions' = [sessions EXCEPT ![s].player.skills =
                                             Append(@, skillId)]
                         /\ result' = CommandResult(s, command, TRUE,
                                          orElse(obj.examineText, obj.description),
                                          {"skills"}, FALSE, FALSE)
                    ELSE /\ result' = CommandResult(s, command, TRUE,
                                          orElse(obj.examineText, obj.description),
                                          {}, FALSE, FALSE)
                         /\ UNCHANGED sessions
                 /\ UNCHANGED worldState
            ELSE succeeds(s, command, orElse(obj.examineText, obj.description))
        ELSE IF npcAt # 0 THEN succeeds(s, command, npcs[npcAt].description)
        ELSE fails(s, command, "You don't see any " \o quoted(command.noun) \o " here.")

\* A go that does not roll the location change back
restoredLocation_NotRolledBack(previousRoom, destination) == destination

\* session.player.location = previousRoom, when the destination is no room of the store
restoredLocation(previousRoom, destination) == previousRoom

\* What room.exits[key] is for an inherited key: an object that is not undefined
\* and has no to, requires, blockedMessage or travelText
inheritedProperty == RoomExit(undefined, FALSE, NoRequirement, "", "")

\* room.exits[direction] of a room object parsed from JSON, <<>> when undefined
exitAt(roomId, direction) ==
    IF direction \in DOMAIN RoomData[roomId].exits
    THEN <<RoomData[roomId].exits[direction]>>
    ELSE IF direction \in inheritedKeys THEN <<inheritedProperty>> ELSE <<>>

\* A go that pushes the destination whether or not the player has been there
markVisited_Always(visitedRooms, id) == Append(visitedRooms, id)

\* if (!visitedRooms.includes(exit.to)) visitedRooms.push(exit.to)
markVisited(visitedRooms, id) ==
    IF seqIncludes(visitedRooms, id) THEN visitedRooms ELSE Append(visitedRooms, id)

handleGo(s, command) ==
    LET player == sessions[s].player
        roomId == player.location
        direction == toLowerCase(command.noun)
        found == exitAt(roomId, direction)
        exit == found[1]
        canPass == canUseExit(exit, player)
        previousRoom == player.location
        visitedRooms == markVisited(player.visitedRooms, exit.to)
        moved == [player EXCEPT !.location = exit.to, !.visitedRooms = visitedRooms]
        npcs == RoomData[exit.to].npcs
        hostileAt == findIndex([index \in 1..Len(npcs) |->
            LET npc == npcs[index] IN npc.hostile /\ checkNpcSpawnConditions(npc.spawnConditions,
                           exit.to, moved)])
        message == (IF exit.travelText # "" THEN exit.travelText \o "\n\n" ELSE "")
                   \o getRoomDescription(exit.to, moved, FALSE)
    IN  IF ~hasRoom(roomId) THEN fails(s, command, "Error: You are nowhere.")
        ELSE IF command.noun = undefined THEN fails(s, command, "Go where?")
        ELSE IF found = <<>> THEN fails(s, command, "You can't go that way.")
        ELSE IF ~canPass.allowed THEN fails(s, command, canPass.message)
        ELSE IF ~hasRoom(exit.to) THEN
            /\ sessions' = [sessions EXCEPT ![s].player =
                               [moved EXCEPT !.location =
                                   restoredLocation(previousRoom, exit.to)]]
            /\ result' = CommandResult(s, command, FALSE, "Error: That room doesn't exist.",
                                       {}, FALSE, FALSE)
            /\ UNCHANGED <<rooms, worldState>>
        ELSE IF hostileAt # 0 THEN
            /\ sessions' = [sessions EXCEPT ![s] =
                               [player |-> moved, inCombat |-> TRUE,
                                currentEnemy |-> npcs[hostileAt].id]]
            /\ result' = CommandResult(s, command, TRUE,
                             message \o "\n\n**" \o npcs[hostileAt].name \o " attacks!**",
                             {"location", "visitedRooms"}, TRUE, TRUE)
            /\ UNCHANGED <<rooms, worldState>>
        ELSE
            /\ sessions' = [sessions EXCEPT ![s].player = moved]
            /\ result' = CommandResult(s, command, TRUE, message,
                                       {"location", "visitedRooms"}, TRUE, FALSE)
            /\ UNCHANGED <<rooms, worldState>>

InventoryItem(obj, equippable) ==
    [id |-> obj.id, name |-> obj.name, description |-> obj.description, quantity |-> 1,
     equippable |-> equippable, equipmentSlot |-> obj.equipmentSlot, usable |-> TRUE,
     weight |-> 1]

\* A take that leaves the object in the room
handleTake_LeavesObject(s, command) ==
    LET player == sessions[s].player
        roomId == player.location
        objects == RoomData[roomId].objects
        objAt == findIndex([index \in 1..Len(objects) |->
            LET o == objects[index] IN /\ o.takeable
                                       /\ ~rooms[roomId].taken[o.id]
                                       /\ matchesObject(o, command.noun)])
        obj == objects[objAt]
    IN  IF ~hasRoom(roomId) THEN fails(s, command, "Error: You are nowhere.")
        ELSE IF command.noun = undefined THEN fails(s, command, "Take what?")
        ELSE IF objAt = 0 THEN
            fails(s, command, "You can't take " \o quoted(command.noun) \o ".")
        ELSE
            /\ sessions' = [sessions EXCEPT ![s].player.inventory =
                               Append(@, InventoryItem(obj, obj.equipmentSlot # undefined))]
            /\ result' = CommandResult(s, command, TRUE, "You take the " \o obj.name \o ".",
                                       {"inventory"}, FALSE, FALSE)
            /\ UNCHANGED <<rooms, worldState>>

handleTake(s, command) ==
    LET player == sessions[s].player
        roomId == player.location
        objects == RoomData[roomId].objects
        objAt == findIndex([index \in 1..Len(objects) |->
            LET o == objects[index] IN /\ o.takeable
                                       /\ ~rooms[roomId].taken[o.id]
                                       /\ matchesObject(o, command.noun)])
        obj == objects[objAt]
    IN  IF ~hasRoom(roomId) THEN fails(s, command, "Error: You are nowhere.")
        ELSE IF command.noun = undefined THEN fails(s, command, "Take what?")
        ELSE IF objAt = 0 THEN
            fails(s, command, "You can't take " \o quoted(command.noun) \o ".")
        ELSE IF rooms[roomId].taken[obj.id] THEN
            fails(s, command, "You've already taken that.")
        ELSE
            /\ sessions' = [sessions EXCEPT ![s].player.inventory =
                               Append(@, InventoryItem(obj, obj.equipmentSlot # undefined))]
            /\ rooms' = [rooms EXCEPT ![roomId].taken[obj.id] = TRUE]
            /\ result' = CommandResult(s, command, TRUE, "You take the " \o obj.name \o ".",
                                       {"inventory"}, FALSE, FALSE)
            /\ UNCHANGED worldState

\* A drop that puts the object back where it was taken
handleDrop_BackIntoRoom(s, command) ==
    LET player == sessions[s].player
        itemIndex == findIndex([index \in 1..Len(player.inventory) |->
            LET i == player.inventory[index] IN matchesItem(i, command.noun)])
        item == player.inventory[itemIndex]
    IN  IF command.noun = undefined THEN fails(s, command, "Drop what?")
        ELSE IF itemIndex = 0 THEN
            fails(s, command, "You don't have " \o quoted(command.noun) \o ".")
        ELSE
            /\ sessions' = [sessions EXCEPT ![s].player.inventory = removeAt(@, itemIndex)]
            /\ result' = CommandResult(s, command, TRUE, "You drop the " \o item.name \o ".",
                                       {"inventory"}, FALSE, FALSE)
            /\ rooms' = [id \in DOMAIN rooms |->
                            [rooms[id] EXCEPT !.taken =
                                [o \in DOMAIN @ |-> IF o = item.id THEN FALSE ELSE @[o]]]]
            /\ UNCHANGED worldState

handleDrop(s, command) ==
    LET player == sessions[s].player
        itemIndex == findIndex([index \in 1..Len(player.inventory) |->
            LET i == player.inventory[index] IN matchesItem(i, command.noun)])
        item == player.inventory[itemIndex]
    IN  IF command.noun = undefined THEN fails(s, command, "Drop what?")
        ELSE IF itemIndex = 0 THEN
            fails(s, command, "You don't have " \o quoted(command.noun) \o ".")
        ELSE
            /\ sessions' = [sessions EXCEPT ![s].player.inventory = removeAt(@, itemIndex)]
            /\ result' = CommandResult(s, command, TRUE, "You drop the " \o item.name \o ".",
                                       {"inventory"}, FALSE, FALSE)
            /\ UNCHANGED <<rooms, worldState>>

handleExamine(s, command) == handleLook(s, command)

RECURSIVE inventoryLines(_)
inventoryLines(items) ==
    IF items = <<>> THEN ""
    ELSE "  - " \o Head(items).name
         \o (IF Tail(items) = <<>> THEN "" ELSE "\n" \o inventoryLines(Tail(items)))

handleInventory(s, command) ==
    IF Len(sessions[s].player.inventory) = 0
    THEN succeeds(s, command, "You are carrying nothing.")
    ELSE succeeds(s, command,
                  "You are carrying:\n" \o inventoryLines(sessions[s].player.inventory))

handleUse(s, command) ==
    LET inventory == sessions[s].player.inventory
        at == findIndex([index \in 1..Len(inventory) |->
            LET i == inventory[index] IN matchesItem(i, command.noun)])
    IN  IF command.noun = undefined THEN fails(s, command, "Use what?")
        ELSE IF at = 0 THEN
            fails(s, command, "You don't have " \o quoted(command.noun) \o ".")
        ELSE IF ~inventory[at].usable THEN
            fails(s, command, "You can't use the " \o inventory[at].name \o ".")
        ELSE succeeds(s, command, "You use the " \o inventory[at].name \o ".")

\* Whether some room of the store defines the equipped id under the typed noun
matchesEquipped(equippedId, noun) ==
    \E k \in 1..Len(storeOrder) :
        \E i \in 1..Len(RoomData[storeOrder[k]].objects) :
            LET o == RoomData[storeOrder[k]].objects[i]
            IN  o.id = equippedId /\ matchesObject(o, noun)

\* A light command that does not compare the noun with the equipped item
handleLight_AnyNoun(s, command) ==
    LET player == sessions[s].player
        equippedLightId == slotGet(player.equippedItems, "light_source")
    IN  IF command.noun = undefined THEN fails(s, command, "Light what?")
        ELSE IF equippedLightId = undefined THEN
            fails(s, command,
                  "You need to equip a light source first before you can turn it on.")
        ELSE IF flagOn(player.flags, equippedLightId \o "_on") THEN
            fails(s, command, "The light is already on.")
        ELSE
            /\ sessions' = [sessions EXCEPT ![s].player.flags =
                               flagSet(@, equippedLightId \o "_on", TRUE)]
            /\ result' = CommandResult(s, command, TRUE,
                             "You turn on the flashlight. A bright beam illuminates the area.",
                             {"flags"}, FALSE, FALSE)
            /\ UNCHANGED <<rooms, worldState>>

handleLight(s, command) ==
    LET player == sessions[s].player
        equippedLightId == slotGet(player.equippedItems, "light_source")
    IN  IF command.noun = undefined THEN fails(s, command, "Light what?")
        ELSE IF equippedLightId = undefined THEN
            fails(s, command,
                  "You need to equip a light source first before you can turn it on.")
        ELSE IF ~matchesEquipped(equippedLightId, command.noun) THEN
            fails(s, command, "You don't have " \o quoted(command.noun)
                              \o " equipped as a light source.")
        ELSE IF flagOn(player.flags, equippedLightId \o "_on") THEN
            fails(s, command, "The light is already on.")
        ELSE
            /\ sessions' = [sessions EXCEPT ![s].player.flags =
                               flagSet(@, equippedLightId \o "_on", TRUE)]
            /\ result' = CommandResult(s, command, TRUE,
                             "You turn on the flashlight. A bright beam illuminates the area.",
                             {"flags"}, FALSE, FALSE)
            /\ UNCHANGED <<rooms, worldState>>

\* An extinguish command that leaves the flag as it is
handleExtinguish_LeavesLightOn(s, command) ==
    LET player == sessions[s].player
        equippedLightId == slotGet(player.equippedItems, "light_source")
    IN  IF command.noun = undefined THEN fails(s, command, "Extinguish what?")
        ELSE IF equippedLightId = undefined THEN
            fails(s, command, "You don't have a light source equipped.")
        ELSE IF ~matchesEquipped(equippedLightId, command.noun) THEN
            fails(s, command, "You don't have " \o quoted(command.noun)
                              \o " equipped as a light source.")
        ELSE IF ~flagOn(player.flags, equippedLightId \o "_on") THEN
            fails(s, command, "The light is not on.")
        ELSE
            /\ sessions' = [sessions EXCEPT ![s].player.flags =
                               @]
            /\ result' = CommandResult(s, command, TRUE,
                             "You turn off the flashlight. The beam of light disappears.",
                             {"flags"}, FALSE, FALSE)
            /\ UNCHANGED <<rooms, worldState>>

handleExtinguish(s, command) ==
    LET player == sessions[s].player
        equippedLightId == slotGet(player.equippedItems, "light_source")
    IN  IF command.noun = undefined THEN fails(s, command, "Extinguish what?")
        ELSE IF equippedLightId = undefined THEN
            fails(s, command, "You don't have a light source equipped.")
        ELSE IF ~matchesEquipped(equippedLightId, command.noun) THEN
            fails(s, command, "You don't have " \o quoted(command.noun)
                              \o " equipped as a light source.")
        ELSE IF ~flagOn(player.flags, equippedLightId \o "_on") THEN
            fails(s, command, "The light is not on.")
        ELSE
            /\ sessions' = [sessions EXCEPT ![s].player.flags =
                               flagSet(@, equippedLightId \o "_on", FALSE)]
            /\ result' = CommandResult(s, command, TRUE,
                             "You turn off the flashlight. The beam of light disappears.",
                             {"flags"}, FALSE, FALSE)
            /\ UNCHANGED <<rooms, worldState>>

\* A turn that takes on for off and off for on
handleTurn_Swapped(s, command) ==
    LET parts == split(command.noun, " ")
        action == IF command.preposition # undefined THEN command.preposition
                  ELSE toLowerCase(parts[1])
        itemName == IF command.preposition # undefined THEN command.noun
                    ELSE join(Tail(parts), " ")
    IN  IF command.noun = undefined THEN fails(s, command, "Turn what?")
        ELSE IF command.preposition = undefined /\ Len(parts) < 2 THEN
            fails(s, command, "Turn what on or off?")
        ELSE IF action = "off" THEN handleLight(s, [command EXCEPT !.noun = itemName])
        ELSE IF action = "on" THEN handleExtinguish(s, [command EXCEPT !.noun = itemName])
        ELSE fails(s, command, "You can only turn things on or off.")

handleTurn(s, command) ==
    LET parts == split(command.noun, " ")
        action == IF command.preposition # undefined THEN command.preposition
                  ELSE toLowerCase(parts[1])
        itemName == IF command.preposition # undefined THEN command.noun
                    ELSE join(Tail(parts), " ")
    IN  IF command.noun = undefined THEN fails(s, command, "Turn what?")
        ELSE IF command.preposition = undefined /\ Len(parts) < 2 THEN
            fails(s, command, "Turn what on or off?")
        ELSE IF action = "on" THEN handleLight(s, [command EXCEPT !.noun = itemName])
        ELSE IF action = "off" THEN handleExtinguish(s, [command EXCEPT !.noun = itemName])
        ELSE fails(s, command, "You can only turn things on or off.")

handleOpen(s, command) ==
    IF command.noun = undefined THEN fails(s, command, "Open what?")
    ELSE fails(s, command, "You can't open the " \o command.noun \o ".")

handleClose(s, command) ==
    IF command.noun = undefined THEN fails(s, command, "Close what?")
    ELSE fails(s, command, "You can't close the " \o command.noun \o ".")

handleAttack(s, command) ==
    IF ~sessions[s].inCombat THEN fails(s, command, "There's nothing to attack here.")
    ELSE succeeds(s, command, "You attack!")

handleCast(s, command) ==
    IF command.noun = undefined THEN fails(s, command, "Cast what spell?")
    ELSE IF sessions[s].player.mp <= 0 THEN
        fails(s, command, "You don't have enough mental energy to cast spells.")
    ELSE fails(s, command, "You don't know a spell called " \o quoted(command.noun) \o ".")

\* A recovery that is never capped by the missing amount
min_Uncapped(a, b) == a

min(a, b) == IF a < b THEN a ELSE b

RECURSIVE decimal(_)
decimal(n) ==
    IF n < 10 THEN <<"0","1","2","3","4","5","6","7","8","9">>[n + 1]
    ELSE decimal(n \div 10) \o decimal(n % 10)

handleRest(s, command) ==
    LET player == sessions[s].player
        hpRecovered == min(restHpRecovery, player.maxHp - player.hp)
        mpRecovered == min(restMpRecovery, player.maxMp - player.mp)
    IN  IF sessions[s].inCombat THEN fails(s, command, "You can't rest during combat!")
        ELSE
            /\ sessions' = [sessions EXCEPT ![s].player.hp = @ + hpRecovered,
                                            ![s].player.mp = @ + mpRecovered]
            /\ result' = CommandResult(s, command, TRUE,
                             "You rest for a while.\nHP recovered: " \o decimal(hpRecovered)
                             \o "\nMP recovered: " \o decimal(mpRecovered),
                             {"hp", "mp"}, FALSE, FALSE)
            /\ UNCHANGED <<rooms, worldState>>

helpText == "\n**Available Commands:**\n\n**Movement:** go [direction], north, south, east, west, up, down\n**Looking:** look, examine [object]\n**Items:** take [item], drop [item], use [item], inventory\n**Equipment:** equip [item], unequip [item]\n**Light:** turn on [item], turn off [item], light [item], extinguish [item]\n**Interaction:** open [object], close [object]\n**Combat:** attack, cast [spell]\n**Other:** rest, help, restart\n\n**Tips:**\n- Examine everything carefully\n- Equip weapons, armor, accessories, and lights from your inventory\n- Watch your HP and MP\n- Some paths may require items or skills\n- Use flashlights to light up dark areas\n- Use 'restart' to begin again from the start\n"

handleHelp(s, command) == succeeds(s, command, helpText)

handleEquip(s, command) ==
    LET player == sessions[s].player
        itemIndex == findIndex([index \in 1..Len(player.inventory) |->
            LET i == player.inventory[index] IN matchesItem(i, command.noun)])
        item == player.inventory[itemIndex]
        slot == item.equipmentSlot
        currentEquipped == slotGet(player.equippedItems, slot)
        currentAt == findIndex([index \in 1..Len(player.inventory) |->
            LET i == player.inventory[index] IN i.id = currentEquipped])
    IN  IF command.noun = undefined THEN fails(s, command, "Equip what?")
        ELSE IF itemIndex = 0 THEN
            fails(s, command, "You don't have " \o quoted(command.noun) \o ".")
        ELSE IF ~item.equippable \/ item.equipmentSlot = undefined THEN
            fails(s, command, "You can't equip the " \o item.name \o ".")
        ELSE IF currentEquipped # undefined /\ currentAt # 0 THEN
            fails(s, command, "You already have " \o player.inventory[currentAt].name
                              \o " equipped in the " \o slot \o " slot. Unequip it first.")
        ELSE
            /\ sessions' = [sessions EXCEPT
                               ![s].player.equippedItems = slotSet(@, slot, item.id),
                               ![s].player.inventory = removeAt(@, itemIndex)]
            /\ result' = CommandResult(s, command, TRUE, "You equip the " \o item.name \o ".",
                                       {"inventory", "equippedItems"}, FALSE, FALSE)
            /\ UNCHANGED <<rooms, worldState>>

\* The static definitions of an object id, in Map order: <<>> when no room has one
RECURSIVE findDefinition(_, _)
findDefinition(roomIds, itemId) ==
    IF roomIds = <<>> THEN <<>>
    ELSE SelectSeq(RoomData[Head(roomIds)].objects, LAMBDA o : o.id = itemId)
         \o findDefinition(Tail(roomIds), itemId)

handleUnequip(s, command) ==
    LET player == sessions[s].player
        foundAt == findIndex([index \in 1..Len(player.equippedItems) |->
            LET e == player.equippedItems[index] IN matchesEquipped(e.id, command.noun)])
        foundSlot == player.equippedItems[foundAt].slot
        equippedItemId == player.equippedItems[foundAt].id
        found == findDefinition(storeOrder, equippedItemId)
        obj == found[1]
    IN  IF command.noun = undefined THEN fails(s, command, "Unequip what?")
        ELSE IF foundAt = 0 THEN
            fails(s, command, "You don't have " \o quoted(command.noun) \o " equipped.")
        ELSE IF found = <<>> THEN fails(s, command, "Error: Could not find item data.")
        ELSE
            /\ sessions' = [sessions EXCEPT
                               ![s].player.inventory = Append(@, InventoryItem(obj, TRUE)),
                               ![s].player.equippedItems = slotDelete(@, foundSlot)]
            /\ result' = CommandResult(s, command, TRUE, "You unequip the " \o obj.name \o ".",
                                       {"inventory", "equippedItems"}, FALSE, FALSE)
            /\ UNCHANGED <<rooms, worldState>>

\* A restart that lets the player keep gold and experience
handleRestart_KeepsProgress(s, command) ==
    /\ sessions' = [sessions EXCEPT ![s].player =
                       [createNewPlayer(sessions[s].player.name, "ROOM_001")
                           EXCEPT !.gold = sessions[s].player.gold,
                                  !.xp = sessions[s].player.xp]]
    /\ rooms' = [id \in DOMAIN rooms |->
                    [taken |-> [o \in DOMAIN rooms[id].taken |-> FALSE],
                     state |-> [rooms[id].state EXCEPT !.visited = FALSE]]]
    /\ result' = CommandResult(s, command, TRUE,
                     "Game restarted. You awaken once again in the cryogenic chamber...",
                     {"inventory", "location", "visitedRooms"}, FALSE, FALSE)
    /\ UNCHANGED worldState

\* A restart that resets the player and leaves the rooms alone
handleRestart_PlayerOnly(s, command) ==
    /\ sessions' = [sessions EXCEPT ![s].player =
                       createNewPlayer(sessions[s].player.name, "ROOM_001")]
    /\ result' = CommandResult(s, command, TRUE,
                     "Game restarted. You awaken once again in the cryogenic chamber...",
                     {"inventory", "location", "visitedRooms"}, FALSE, FALSE)
    /\ UNCHANGED <<rooms, worldState>>

\* A restart that sends every session back to the start
handleRestart_Everyone(s, command) ==
    /\ sessions' = [t \in DOMAIN sessions |->
                       [sessions[t] EXCEPT !.player =
                           createNewPlayer(sessions[t].player.name, "ROOM_001")]]
    /\ rooms' = [id \in DOMAIN rooms |->
                    [taken |-> [o \in DOMAIN rooms[id].taken |-> FALSE],
                     state |-> [rooms[id].state EXCEPT !.visited = FALSE]]]
    /\ result' = CommandResult(s, command, TRUE,
                     "Game restarted. You awaken once again in the cryogenic chamber...",
                     {"inventory", "location", "visitedRooms"}, FALSE, FALSE)
    /\ UNCHANGED worldState

\* A restart that also ends the fight
handleRestart_EndsCombat(s, command) ==
    /\ sessions' = [sessions EXCEPT ![s] =
                       [player |-> createNewPlayer(sessions[s].player.name, "ROOM_001"),
                        inCombat |-> FALSE, currentEnemy |-> undefined]]
    /\ rooms' = [id \in DOMAIN rooms |->
                    [taken |-> [o \in DOMAIN rooms[id].taken |-> FALSE],
                     state |-> [rooms[id].state EXCEPT !.visited = FALSE]]]
    /\ result' = CommandResult(s, command, TRUE,
                     "Game restarted. You awaken once again in the cryogenic chamber...",
                     {"inventory", "location", "visitedRooms"}, FALSE, FALSE)
    /\ UNCHANGED worldState

handleRestart(s, command) ==
    /\ sessions' = [sessions EXCEPT ![s].player =
                       createNewPlayer(sessions[s].player.name, "ROOM_001")]
    /\ rooms' = [id \in DOMAIN rooms |->
                    [taken |-> [o \in DOMAIN rooms[id].taken |-> FALSE],
                     state |-> [rooms[id].state EXCEPT !.visited = FALSE]]]
    /\ result' = CommandResult(s, command, TRUE,
                     "Game restarted. You awaken once again in the cryogenic chamber...",
                     {"inventory", "location", "visitedRooms"}, FALSE, FALSE)
    /\ UNCHANGED worldState

\* setWorldState(key, value), the engine's entry point for world flags
setWorldState(key, value) ==
    /\ worldState' = flagSet(worldState, key, value)
    /\ result' = NoResult
    /\ UNCHANGED <<startingRoom, rooms, sessions, sent>>

\* A router whose default case lets the command through
defaultCase_Succeeds(s, command) ==
    succeeds(s, command, "I don't know how to " \o quoted(command.verb) \o ".")

\* The default case of the router
defaultCase(s, command) ==
    fails(s, command, "I don't know how to " \o quoted(command.verb) \o ".")

processCommand(s, input) ==
    LET command == parseInput(input)
    IN  IF threw(command) THEN
            \* the promise rejects: no CommandResult, nothing written
            fails(s, command, TypeError)
        ELSE IF ~command.valid THEN
            fails(s, command, IF command.errorMessage # undefined /\ command.errorMessage # ""
                              THEN command.errorMessage
                              ELSE "I don't understand that command.")
        ELSE CASE command.verb = "look" -> handleLook(s, command)
               [] command.verb = "go" -> handleGo(s, command)
               [] command.verb = "take" -> handleTake(s, command)
               [] command.verb = "drop" -> handleDrop(s, command)
               [] command.verb = "examine" -> handleExamine(s, command)
               [] command.verb = "inventory" -> handleInventory(s, command)
               [] command.verb = "use" -> handleUse(s, command)
               [] command.verb = "turn" -> handleTurn(s, command)
               [] command.verb = "light" -> handleLight(s, command)
               [] command.verb = "extinguish" -> handleExtinguish(s, command)
               [] command.verb = "open" -> handleOpen(s, command)
               [] command.verb = "close" -> handleClose(s, command)
               [] command.verb = "attack" -> handleAttack(s, command)
               [] command.verb = "cast" -> handleCast(s, command)
               [] command.verb = "rest" -> handleRest(s, command)
               [] command.verb = "help" -> handleHelp(s, command)
               [] command.verb = "restart" -> handleRestart(s, command)
               [] command.verb = "equip" -> handleEquip(s, command)
               [] command.verb = "unequip" -> handleUnequip(s, command)
               [] OTHER -> defaultCase(s, command)

(***************************************************************************)
(* WebSocket transport                                                     *)
(***************************************************************************)
ServerMessage(s, type, text) == [to |-> s, type |-> type, text |-> text]

getIntroText == "You awaken in darkness. The stale air carries the scent of rust and decay. \nYour memories are fragmented-broken images of laboratories, warnings, and a world on fire.\n\nAs your eyes adjust, you realize you're in some kind of bunker. Emergency lights flicker \noverhead, casting long shadows across the debris-strewn floor. A distant alarm wails, \nthen falls silent.\n\nSomething has changed. The containment systems are failing. You need to get out.\n\nType \"help\" for a list of commands."

\* handleConnection: the session a new socket gets
newSession(start) ==
    [player |-> createNewPlayer("Unknown", start), inCombat |-> FALSE,
     currentEnemy |-> undefined]

\* What handleCommand sends for a CommandResult
relay(s, res) ==
    <<ServerMessage(s, "response", res.message)>>
    \o (IF res.stateChanges # {} \/ res.roomChanged
        THEN <<ServerMessage(s, "state_update", "")>> ELSE <<>>)
    \o (IF res.combatTriggered THEN <<ServerMessage(s, "combat_start", "")>> ELSE <<>>)

\* A connect message; savedState is <<>> or <<the saved PlayerState>>
handleConnect(s, savedState) ==
    LET player == IF savedState # <<>> THEN savedState[1] ELSE sessions[s].player
    IN  /\ sessions' = [sessions EXCEPT ![s].player = player]
        /\ sent' = IF player.name = "Unknown" THEN
                       <<ServerMessage(s, "response",
                            "Welcome to Shadow Chronicles.\n\nWhat is your name, traveler?")>>
                   ELSE IF hasRoom(player.location) THEN
                       <<ServerMessage(s, "response",
                            "Welcome back, " \o player.name \o ".\n\n"
                            \o getRoomDescription(player.location, player, FALSE)),
                         ServerMessage(s, "state_update", "")>>
                   ELSE <<>>
        /\ result' = NoResult
        /\ UNCHANGED <<startingRoom, rooms, worldState>>

\* A command message carrying the text input
handleCommand(s, input) ==
    LET named == [sessions[s].player EXCEPT !.name = trim(input),
                                            !.location = startingRoom]
        placed == [named EXCEPT !.visitedRooms = Append(@, startingRoom)]
    IN  IF input = "" THEN
            /\ sent' = <<ServerMessage(s, "error", "No command provided")>>
            /\ result' = NoResult
            /\ UNCHANGED <<startingRoom, rooms, worldState, sessions>>
        ELSE IF sessions[s].player.name = "Unknown" THEN
            /\ IF hasRoom(startingRoom)
               THEN /\ sessions' = [sessions EXCEPT ![s].player = placed]
                    /\ sent' = <<ServerMessage(s, "response",
                                    "Welcome, " \o placed.name \o ".\n\n" \o getIntroText
                                    \o "\n\n"
                                    \o getRoomDescription(startingRoom, placed, FALSE)),
                                 ServerMessage(s, "state_update", "")>>
               ELSE /\ sessions' = [sessions EXCEPT ![s].player = named]
                    /\ sent' = <<>>
            /\ result' = NoResult
            /\ UNCHANGED <<startingRoom, rooms, worldState>>
        ELSE
            /\ processCommand(s, input)
            /\ sent' = IF threw(result'.command) THEN <<>> ELSE relay(s, result')
            /\ UNCHANGED startingRoom

(***************************************************************************)
(* Specifications                                                          *)
(***************************************************************************)
\* The longest inventory the model follows
MaxInventory == 2

AllRooms == {"ROOM_001", "ROOM_002", "ROOM_003", "ROOM_004"}

\* main(): the rooms of the data loaded, the transport at startingRoom, and
\* one session per connected socket
boot(start, loaded, connected) ==
    /\ startingRoom = start
    /\ rooms = [id \in loaded |-> loadRoom(id)]
    /\ worldState = <<>>
    /\ sessions = [s \in connected |-> newSession(start)]
    /\ result = NoResult
    /\ sent = <<>>

\* The names the players give
Names == {"Ann"}

\* A player state a client has saved and sends back with its connect message
Veteran ==
    [createNewPlayer("Vet", "ROOM_001") EXCEPT
        !.gold = 5, !.hp = 60, !.mp = 30, !.xp = 1200, !.level = 2,
        !.stats = [Physical |-> 12, Mental |-> 9, Resilience |-> 11],
        !.statusEffects = <<[id |-> "chill", name |-> "Chill", duration |-> 3]>>,
        !.notes = <<"find the key">>,
        !.visitedRooms = <<"ROOM_001">>]

\* Whether the input stays within MaxInventory
withinBounds(s, input) ==
    IF sessions[s].player.name = "Unknown" THEN TRUE
    ELSE IF Len(sessions[s].player.inventory) < MaxInventory THEN TRUE
    ELSE parseInput(input).verb \notin {"take", "unequip"}

\* A client sends its next command: its name first, if it has none yet
play(inputs) ==
    \E s \in DOMAIN sessions :
        \E input \in (IF sessions[s].player.name = "Unknown" THEN Names ELSE inputs) :
            withinBounds(s, input) /\ handleCommand(s, input)

\* A client sends the connect message of its freshly opened socket
connect(saved) ==
    \E s \in DOMAIN sessions :
        \E savedState \in saved :
            sessions[s].player.name = "Unknown" /\ handleConnect(s, savedState)

\* One player, the server as main() starts it
Init == boot("ROOM_001", AllRooms, {"s1"})
Next == play(CoreInputs)
Spec == Init /\ [][Next]_vars

\* One player, who may come back with a saved state
NextSaved == play(SavedInputs) \/ connect({<<>>, <<Veteran>>})
SpecSaved == Init /\ [][NextSaved]_vars

\* Two players in the shared world
InitShared == boot("ROOM_001", AllRooms, {"s1", "s2"})
NextShared == play(SharedInputs)
SpecShared == InitShared /\ [][NextShared]_vars

\* A saved player state whose Physical stat is the value the stat gate asks for
Athlete ==
    [createNewPlayer("Max", "ROOM_001") EXCEPT
        !.stats = [Physical |-> 15, Mental |-> 10, Resilience |-> 10],
        !.visitedRooms = <<"ROOM_001">>]

\* The application embedding the engine opens or closes the gate
setGate == \E value \in BOOLEAN : setWorldState("gate_open", value)

\* One player walking through every kind of exit
NextGates == play(GateInputs) \/ connect({<<>>, <<Athlete>>}) \/ setGate
SpecGates == Init /\ [][NextGates]_vars

\* One player with two light sources
NextLight == play(LightInputs)
SpecLight == Init /\ [][NextLight]_vars

\* A saved player state that has the skill the mural teaches
Climber ==
    [createNewPlayer("Cleo", "ROOM_001") EXCEPT
        !.skills = <<"climbing">>, !.visitedRooms = <<"ROOM_001">>]

\* Two players in front of the mural, either of whom may come back with a saved state
NextExamine == play(ExamineInputs) \/ connect({<<>>, <<Climber>>})
SpecExamine == InitShared /\ [][NextExamine]_vars

\* The application embedding the engine sets a world flag named like a player
\* flag or like a room-state flag
setFlag ==
    \E key \in {"lamp_on", "climbing"} :
        \E value \in BOOLEAN : setWorldState(key, value)

\* One player between the gates while the application sets the world flags
NextScopes == play(ScopeInputs) \/ setFlag
SpecScopes == Init /\ [][NextScopes]_vars

\* One player looking at the rooms
NextDescribe == play(DescribeInputs)
SpecDescribe == Init /\ [][NextDescribe]_vars

\* One player at the switch of the lamp
NextTurn == play(TurnInputs)
SpecTurn == Init /\ [][NextTurn]_vars

\* One player trying every word of the verb table
NextSynonyms == play(SynonymInputs)
SpecSynonyms == Init /\ [][NextSynonyms]_vars

\* One player typing whatever comes to mind
NextParse == play(ParseInputs)
SpecParse == Init /\ [][NextParse]_vars

\* One player, every way of configuring the starting room and the store
InitConfig ==
    \E loaded \in {AllRooms, AllRooms \ {"ROOM_001"}} :
        \E start \in loaded : boot(start, loaded, {"s1"})
NextConfig == play(ConfigInputs)
SpecConfig == InitConfig /\ [][NextConfig]_vars

(***************************************************************************)
(* Properties                                                              *)
(***************************************************************************)
\* The step is a processCommand call of session s
calls(s) == result'.session = s

\* The step is a processCommand call of session s whose command has this verb
callsVerb(s, verb) == result'.session = s /\ result'.command.verb = verb

\* The names on the "You can see:" line of a text, <<>> when it has no such line
seenList(text) ==
    LET at == indexOf(text, "You can see: ")
        rest == SubSeq(text, at + Len("You can see: "), Len(text))
        stop == indexOf(rest, "\n\n")
        line == IF stop = 0 THEN rest ELSE SubSeq(rest, 1, stop - 1)
    IN  IF at = 0 THEN <<>> ELSE split(line, ", ")

\* C1: an equip of an equippable inventory item whose slot already holds an
\* item id fails and leaves inventory and equippedItems as they were.
C1_EquipIntoOccupiedSlotFails ==
    [][\A s \in DOMAIN sessions :
          LET player == sessions[s].player
              noun == result'.command.noun
              at == findIndex([index \in 1..Len(player.inventory) |->
                  LET i == player.inventory[index] IN matchesItem(i, noun)])
              item == player.inventory[at]
          IN  (/\ callsVerb(s, "equip")
               /\ noun # undefined
               /\ at # 0
               /\ item.equippable
               /\ item.equipmentSlot # undefined
               /\ slotGet(player.equippedItems, item.equipmentSlot) # undefined)
              => /\ ~result'.success
                 /\ sessions'[s].player.inventory = player.inventory
                 /\ sessions'[s].player.equippedItems = player.equippedItems]_vars

\* C2: a processCommand call that returns success=false changes neither the
\* sessions (player state, in-combat flag), nor the rooms, nor the world state.
C2_FailedCommandChangesNothing ==
    [][(result'.session # "none" /\ ~result'.success)
          => UNCHANGED <<sessions, rooms, worldState>>]_vars

\* C3: a go through an exit the gate allows, whose destination is no room of the
\* store, returns success=false and leaves player.location where it was.
C3_DanglingGoKeepsLocation ==
    [][\A s \in DOMAIN sessions :
          LET player == sessions[s].player
              noun == result'.command.noun
              exits == RoomData[player.location].exits
              exit == exits[toLowerCase(noun)]
          IN  (/\ callsVerb(s, "go")
               /\ noun # undefined
               /\ hasRoom(player.location)
               /\ toLowerCase(noun) \in DOMAIN exits
               /\ canUseExit(exit, player).allowed
               /\ exit.to \notin DOMAIN rooms)
              => /\ ~result'.success
                 /\ sessions'[s].player.location = player.location]_vars

\* C3 witness: a go has just been refused for its missing destination, and the
\* player stands in a room of the store.
C3_Witness ==
    /\ result.session # "none"
    /\ result.command.verb = "go"
    /\ result.message = "Error: That room doesn't exist."
    /\ sessions[result.session].player.location = "ROOM_001"

\* C4: while a session is in combat, a go command of that session does not
\* move its player.
C4_NoGoWhileInCombat ==
    [][\A s \in DOMAIN sessions :
          (sessions[s].inCombat /\ callsVerb(s, "go"))
              => sessions'[s].player.location = sessions[s].player.location]_vars

\* C5: after a restart the player stands in the starting room the transport was
\* configured with.
C5_RestartAtConfiguredStart ==
    (result.session # "none" /\ result.command.verb = "restart")
        => sessions[result.session].player.location = startingRoom

\* C6: every session's player.location is the id of a room of the store.
C6_LocationInStore ==
    \A s \in DOMAIN sessions : hasRoom(sessions[s].player.location)

\* C7: a restart leaves the issuing player with the defaults of createNewPlayer
\* and the name the player had.
C7_RestartGivesDefaults ==
    [][\A s \in DOMAIN sessions :
          callsVerb(s, "restart") =>
              LET player == sessions'[s].player
              IN  /\ player.name = sessions[s].player.name
                  /\ player.hp = baseHp /\ player.maxHp = baseHp
                  /\ player.mp = baseMp /\ player.maxMp = baseMp
                  /\ player.level = 1 /\ player.xp = 0 /\ player.gold = 0
                  /\ player.stats.Physical = player.stats.Mental
                  /\ player.stats.Mental = player.stats.Resilience
                  /\ player.inventory = <<>>
                  /\ player.equippedItems = <<>>
                  /\ player.skills = <<>>
                  /\ player.flags = <<>>
                  /\ player.statusEffects = <<>>
                  /\ player.visitedRooms = <<>>]_vars

\* C7 witness: the restart of a player who came back with gold, levels, a status
\* effect and less than full hp, and had learned a skill since.
C7_Witness ==
    /\ result.session # "none"
    /\ result.command.verb = "restart"
    /\ sessions[result.session].player.name = Veteran.name
    /\ rooms["ROOM_001"].state.climbing

\* The objects a lit description of the room lists for a player when none is taken
alwaysListed(roomId) ==
    {RoomData[roomId].objects[i].name : i \in
        {j \in 1..Len(RoomData[roomId].objects) :
            RoomData[roomId].objects[j].visibility = "always"}}

\* No object of any room is taken and no room is visited
worldIsFresh ==
    \A id \in DOMAIN rooms :
        /\ \A o \in DOMAIN rooms[id].taken : ~rooms[id].taken[o]
        /\ ~rooms[id].state.visited

\* Every session with light is shown every plainly visible object of its room
everyObjectListed ==
    \A t \in DOMAIN sessions :
        LET player == sessions[t].player
            shown == seenList(getRoomDescription(player.location, player, TRUE))
        IN  (hasRoom(player.location) /\ hasLight(player.location, player))
            => \A name \in alwaysListed(player.location) : seqIncludes(shown, name)

\* C8: right after a restart of any session no object of any room is taken and no
\* room is visited; every session is shown the objects of its room again, and a
\* take of one of them that follows the restart succeeds.
C8_RestartResetsSharedWorld ==
    /\ []((result.session # "none" /\ result.command.verb = "restart")
            => (worldIsFresh /\ everyObjectListed))
    /\ [][\A t \in DOMAIN sessions :
            (/\ result.session # "none"
             /\ result.command.verb = "restart"
             /\ callsVerb(t, "take")
             /\ result'.command.noun = "lamp"
             /\ sessions[t].player.location = "ROOM_001")
            => /\ result'.success
               /\ sessions'[t].player.inventory =
                      Append(sessions[t].player.inventory, InventoryItem(Lamp, TRUE))]_vars

\* C8 witness: one session has restarted while the other one, standing in the
\* first room, carries the lamp it took there.
C8_Witness ==
    /\ result.session = "s1"
    /\ result.command.verb = "restart"
    /\ sessions["s2"].player.location = "ROOM_001"
    /\ \E i \in 1..Len(sessions["s2"].player.inventory) :
           sessions["s2"].player.inventory[i].id = "lamp"

\* The object names some response of the step's handler lists as seen
listedNow == UNION {{seenList(sent'[i].text)[k] : k \in 1..Len(seenList(sent'[i].text))} :
                      i \in {j \in 1..Len(sent') : sent'[j].type = "response"}}

\* C9: an object whose taken flag is set stays taken, and is listed in no room
\* description sent to any session, through every step but a restart.
C9_TakenObjectStaysUnlisted ==
    [][\A id \in DOMAIN rooms :
          \A i \in 1..Len(RoomData[id].objects) :
              LET obj == RoomData[id].objects[i]
              IN  (rooms[id].taken[obj.id] /\ result'.command.verb # "restart")
                  => /\ rooms'[id].taken[obj.id]
                     /\ obj.name \notin listedNow]_vars

\* C9 witness: the lamp was taken and dropped again, it is in no inventory and
\* in no slot, and a look at its room lists the torch but not the lamp.
C9_Witness ==
    /\ rooms["ROOM_001"].taken["lamp"]
    /\ \A s \in DOMAIN sessions :
          /\ sessions[s].player.inventory = <<>>
          /\ sessions[s].player.equippedItems = <<>>
    /\ result.session # "none"
    /\ result.command.verb = "look"
    /\ seqIncludes(seenList(result.message), "Torch")
    /\ ~seqIncludes(seenList(result.message), "Brass Lamp")

\* C10: a take that matches an untaken, takeable object of the player's room adds
\* one entry, that object's id with quantity 1, to the player's inventory and
\* sets the object's taken flag; any other take fails and changes neither.
C10_TakeAddsOneEntryAndMarksTaken ==
    [][\A s \in DOMAIN sessions :
          LET player == sessions[s].player
              roomId == player.location
              noun == result'.command.noun
              objects == RoomData[roomId].objects
              matching == IF noun = undefined THEN {}
                          ELSE {i \in 1..Len(objects) :
                                   /\ objects[i].takeable
                                   /\ ~rooms[roomId].taken[objects[i].id]
                                   /\ matchesObject(objects[i], noun)}
              inventory == sessions'[s].player.inventory
          IN  (callsVerb(s, "take") /\ hasRoom(roomId)) =>
                  IF matching # {}
                  THEN \E i \in matching :
                          /\ result'.success
                          /\ Len(inventory) = Len(player.inventory) + 1
                          /\ SubSeq(inventory, 1, Len(player.inventory)) = player.inventory
                          /\ inventory[Len(inventory)].id = objects[i].id
                          /\ inventory[Len(inventory)].quantity = 1
                          /\ rooms' = [rooms EXCEPT ![roomId].taken[objects[i].id] = TRUE]
                  ELSE /\ ~result'.success
                       /\ inventory = player.inventory
                       /\ rooms' = rooms]_vars

\* C10 witness: a take has just succeeded and the inventory holds the object
\* once, with its taken flag set.
C10_Witness ==
    /\ result.session # "none"
    /\ result.command.verb = "take"
    /\ result.success
    /\ rooms["ROOM_001"].taken["torch"]
    /\ Len(SelectSeq(sessions[result.session].player.inventory,
                     LAMBDA i : i.id = "torch")) = 1

\* C11: of the takes several sessions issue for one object, one command at a
\* time, at most one succeeds between two restarts: a take succeeds only on an
\* object that was not taken, marks it taken, only a restart unmarks it, and a
\* take for an object that is taken fails and adds nothing to the inventory.
C11_OneTakePerObject ==
    [][/\ \A t \in DOMAIN sessions :
            LET player == sessions[t].player
                roomId == player.location
                objects == RoomData[roomId].objects
                noun == result'.command.noun
                wanted == {i \in 1..Len(objects) : matchesObject(objects[i], noun)}
            IN  (callsVerb(t, "take") /\ hasRoom(roomId) /\ noun # undefined) =>
                    /\ result'.success =>
                          \E i \in wanted :
                              /\ ~rooms[roomId].taken[objects[i].id]
                              /\ rooms'[roomId].taken[objects[i].id]
                    /\ (\A i \in wanted : rooms[roomId].taken[objects[i].id]) =>
                          /\ ~result'.success
                          /\ sessions'[t].player.inventory = player.inventory
       /\ \A id \in DOMAIN rooms :
            \A o \in DOMAIN rooms[id].taken :
                (rooms[id].taken[o] /\ ~rooms'[id].taken[o])
                    => result'.command.verb = "restart"]_vars

\* C11 witness: both sessions stand in the first room, one holds the lamp, and
\* the other's take of the lamp has just failed.
C11_Witness ==
    /\ sessions["s1"].player.location = "ROOM_001"
    /\ sessions["s2"].player.location = "ROOM_001"
    /\ \E i \in 1..Len(sessions["s1"].player.inventory) :
           sessions["s1"].player.inventory[i].id = "lamp"
    /\ result.session = "s2"
    /\ result.command.verb = "take"
    /\ result.command.noun = "lamp"
    /\ ~result.success
    /\ sessions["s2"].player.inventory = <<>>

\* How often x occurs in seq
count(seq, x) == Cardinality({i \in 1..Len(seq) : seq[i] = x})

\* C12: a go through an exit of the room that has no requirement and leads to a
\* room of the store moves the player there and succeeds with roomChanged set,
\* the destination is in visitedRooms once, and no visitedRooms list ever holds
\* an id twice.
C12_GoMovesAndVisitsOnce ==
    /\ [](\A s \in DOMAIN sessions :
            \A i, j \in 1..Len(sessions[s].player.visitedRooms) :
                sessions[s].player.visitedRooms[i] = sessions[s].player.visitedRooms[j]
                    => i = j)
    /\ [][\A s \in DOMAIN sessions :
            LET player == sessions[s].player
                noun == result'.command.noun
                exits == RoomData[player.location].exits
                exit == exits[toLowerCase(noun)]
            IN  (/\ callsVerb(s, "go")
                 /\ noun # undefined
                 /\ hasRoom(player.location)
                 /\ toLowerCase(noun) \in DOMAIN exits
                 /\ exit.requires = NoRequirement
                 /\ hasRoom(exit.to))
                => /\ result'.success
                   /\ result'.roomChanged
                   /\ sessions'[s].player.location = exit.to
                   /\ count(sessions'[s].player.visitedRooms, exit.to) = 1]_vars

\* C12 witness: the player has gone back into a room visited before.
C12_Witness ==
    /\ result.session # "none"
    /\ result.command.verb = "go"
    /\ result.success
    /\ sessions[result.session].player.location = "ROOM_001"
    /\ sessions[result.session].player.visitedRooms = <<"ROOM_001", "ROOM_002">>

\* C13: a go in a direction that is no key of the room's exits fails with the
\* message "You can't go that way." and leaves location and visitedRooms as
\* they were.
C13_NoSuchExit ==
    [][\A s \in DOMAIN sessions :
          LET player == sessions[s].player
              noun == result'.command.noun
          IN  (/\ callsVerb(s, "go")
               /\ noun # undefined
               /\ hasRoom(player.location)
               /\ toLowerCase(noun) \notin DOMAIN RoomData[player.location].exits)
              => /\ ~result'.success
                 /\ result'.message = "You can't go that way."
                 /\ sessions'[s].player.location = player.location
                 /\ sessions'[s].player.visitedRooms = player.visitedRooms]_vars

\* Whether the requirement of an exit holds for a player, in the words of the
\* four requirement kinds
requirementHolds(exit, player) ==
    CASE exit.requires.type = "item" ->
            \E i \in 1..Len(player.inventory) : player.inventory[i].id = exit.requires.id
      [] exit.requires.type = "state" ->
            exit.requires.id \in DOMAIN worldState /\ worldState[exit.requires.id]
      [] exit.requires.type = "skill" ->
            \E i \in 1..Len(player.skills) : player.skills[i] = exit.requires.id
      [] exit.requires.type = "stat" ->
            player.stats[exit.requires.id] >= exit.requires.value
      [] OTHER -> TRUE

\* The message of a gate that denies: the exit's own, else the default of the kind
denialMessage(exit) ==
    IF exit.blockedMessage # "" THEN exit.blockedMessage
    ELSE CASE exit.requires.type = "item" -> "You can't go that way."
           [] exit.requires.type = "state" -> "The way is blocked."
           [] exit.requires.type = "skill" -> "You lack the required skill."
           [] exit.requires.type = "stat" -> "You're not capable of that."

lightRule(roomId, player) ==
    \/ RoomData[roomId].lighting.isLit
    \/ \E i \in 1..Len(player.equippedItems) :
          /\ player.equippedItems[i].slot = "light_source"
          /\ (player.equippedItems[i].id \o "_on") \in DOMAIN player.flags
          /\ player.flags[player.equippedItems[i].id \o "_on"]

\* Whether every spawn condition of an npc holds for a player in a room
spawnRule(npc, roomId, player) ==
    \A i \in 1..Len(npc.spawnConditions) :
        /\ npc.spawnConditions[i] = "darkness" => ~lightRule(roomId, player)
        /\ npc.spawnConditions[i] = "light_present" => lightRule(roomId, player)

\* C15: a successful go reports combatTriggered, and marks the session in
\* combat, exactly when the destination has a hostile npc whose spawn
\* conditions all hold; an npc whose conditions do not hold is not described
\* and does not attack.
C15_CombatOnlyWithSpawnedHostile ==
    [][\A s \in DOMAIN sessions :
          LET player == sessions'[s].player
              roomId == player.location
              npcs == RoomData[roomId].npcs
              hostile == \E i \in 1..Len(npcs) :
                            npcs[i].hostile /\ spawnRule(npcs[i], roomId, player)
          IN  (callsVerb(s, "go") /\ result'.success) =>
                  /\ result'.combatTriggered = hostile
                  /\ sessions'[s].inCombat = (hostile \/ sessions[s].inCombat)
                  /\ \A i \in 1..Len(npcs) :
                        IF spawnRule(npcs[i], roomId, player)
                        THEN lightRule(roomId, player)
                                => includes(result'.message, npcs[i].description)
                        ELSE /\ ~includes(result'.message, npcs[i].description)
                             /\ ~includes(result'.message, npcs[i].name)]_vars

\* C15 witness: the player has entered the dark room with the lamp on, no
\* combat was triggered and the session is not in combat.
C15_Witness ==
    /\ result.session # "none"
    /\ result.command.verb = "go"
    /\ result.success
    /\ ~result.combatTriggered
    /\ sessions[result.session].player.location = "ROOM_002"
    /\ ~sessions[result.session].inCombat
    /\ lightRule("ROOM_002", sessions[result.session].player)

\* C16: hasLight is true exactly when the room is lit or the light_source slot
\* holds an item whose "<id>_on" player flag is true, and without light the
\* description of a room is its dark text and nothing more: no "You can see:"
\* line, no "Exits:" line, no npc paragraph.
C16_LightRuleAndDarkText ==
    \A s \in DOMAIN sessions :
        \A roomId \in DOMAIN rooms :
            LET player == sessions[s].player
                room == RoomData[roomId]
            IN  /\ hasLight(roomId, player) = lightRule(roomId, player)
                /\ ~lightRule(roomId, player) =>
                      \A verbose \in BOOLEAN :
                          LET text == getRoomDescription(roomId, player, verbose)
                          IN  /\ text = room.descriptions.dark
                              /\ ~includes(text, "You can see:")
                              /\ ~includes(text, "Exits:")
                              /\ \A i \in 1..Len(room.npcs) :
                                    ~includes(text, room.npcs[i].description)

\* C16 witness: in the dark room, where the untaken key lies and the lurker
\* spawns, the player has the torch in the slot while the flag of the lamp,
\* lit earlier, is still true.
C16_Witness ==
    \E s \in DOMAIN sessions :
        LET player == sessions[s].player
        IN  /\ player.location = "ROOM_002"
            /\ slotGet(player.equippedItems, "light_source") = "torch"
            /\ flagOn(player.flags, "lamp_on")
            /\ ~rooms["ROOM_002"].taken["key"]
            /\ result.command.verb = "look"
            /\ result.message = RoomData["ROOM_002"].descriptions.dark

\* C17: in a naturally unlit room with a visible exit, a look without light
\* returns the dark text; equipping the carried lamp, not lit before, succeeds
\* and gives no light yet; lighting the equipped lamp succeeds and gives light,
\* and a look then shows an "Exits:" line; extinguishing it succeeds and takes
\* the light away, and a look returns the dark text again.
C17_LightThenLookThenExtinguish ==
    [][\A s \in DOMAIN sessions :
          LET player == sessions[s].player
              after == sessions'[s].player
              roomId == player.location
              room == RoomData[roomId]
          IN  (/\ hasRoom(roomId)
               /\ ~room.lighting.isLit
               /\ \E d \in DOMAIN room.exits : room.exits[d].visible)
              => /\ (callsVerb(s, "look") /\ result'.command.noun = undefined) =>
                        IF hasLight(roomId, player)
                        THEN includes(result'.message, "\n\nExits: ")
                        ELSE result'.message = room.descriptions.dark
                 /\ (/\ callsVerb(s, "equip")
                     /\ result'.command.noun = "lamp"
                     /\ \E i \in 1..Len(player.inventory) : player.inventory[i].id = "lamp"
                     /\ player.equippedItems = <<>>)
                    => /\ result'.success
                       /\ slotGet(after.equippedItems, "light_source") = "lamp"
                       /\ ~flagOn(player.flags, "lamp_on") => ~lightRule(roomId, after)
                 /\ (/\ callsVerb(s, "light")
                     /\ slotGet(player.equippedItems, "light_source") = "lamp"
                     /\ ~hasLight(roomId, player))
                    => /\ result'.success
                       /\ lightRule(roomId, after)
                 /\ (/\ callsVerb(s, "extinguish")
                     /\ slotGet(player.equippedItems, "light_source") = "lamp"
                     /\ hasLight(roomId, player))
                    => /\ result'.success
                       /\ ~lightRule(roomId, after)]_vars

\* C17 witness: in the dark room the player, whose lamp was lit and has been
\* extinguished, looks and gets the dark text.
C17_Witness ==
    \E s \in DOMAIN sessions :
        LET player == sessions[s].player
        IN  /\ player.location = "ROOM_002"
            /\ slotGet(player.equippedItems, "light_source") = "lamp"
            /\ "lamp_on" \in DOMAIN player.flags
            /\ ~player.flags["lamp_on"]
            /\ result.session = s
            /\ result.command.verb = "look"
            /\ result.message = RoomData["ROOM_002"].descriptions.dark

\* Whether flags after differ from flags before in the one key, now of this value
flipped(before, after, key, value) ==
    /\ DOMAIN after = DOMAIN before \cup {key}
    /\ after[key] = value
    /\ \A k \in DOMAIN before \ {key} : after[k] = before[k]

\* C18: a light succeeds only if the light_source slot holds an item, the noun
\* matches that item's definition and its "<id>_on" flag is not true; an
\* extinguish only if the flag is true; a success flips that one player flag
\* and changes nothing else, a rejection changes no flag.
C18_LightSwitchGuards ==
    [][\A s \in DOMAIN sessions :
          LET player == sessions[s].player
              after == sessions'[s].player
              noun == result'.command.noun
              held == {i \in 1..Len(player.equippedItems) :
                          player.equippedItems[i].slot = "light_source"}
              itemId == player.equippedItems[CHOOSE i \in held : TRUE].id
              isOn == (itemId \o "_on") \in DOMAIN player.flags
                      /\ player.flags[itemId \o "_on"]
              definitions == {o \in UNION {{RoomData[id].objects[i] :
                                               i \in 1..Len(RoomData[id].objects)} :
                                           id \in DOMAIN rooms} : o.id = itemId}
              named == \E o \in definitions :
                           \/ o.id = noun
                           \/ includes(toLowerCase(o.name), toLowerCase(noun))
                           \/ \E k \in 1..Len(o.synonyms) :
                                  includes(toLowerCase(o.synonyms[k]), toLowerCase(noun))
          IN  (callsVerb(s, "light") \/ callsVerb(s, "extinguish")) =>
                  IF result'.success
                  THEN /\ noun # undefined
                       /\ held # {}
                       /\ named
                       /\ isOn = callsVerb(s, "extinguish")
                       /\ flipped(player.flags, after.flags, itemId \o "_on",
                                  callsVerb(s, "light"))
                       /\ [after EXCEPT !.flags = player.flags] = player
                       /\ sessions' = [sessions EXCEPT ![s].player = after]
                       /\ rooms' = rooms
                       /\ worldState' = worldState
                  ELSE /\ sessions' = sessions
                       /\ rooms' = rooms
                       /\ worldState' = worldState]_vars

\* C18 witness: a light was refused because the torch, not the lamp it names,
\* is in the slot, after the lamp had been switched on and replaced.
C18_Witness ==
    /\ result.session # "none"
    /\ result.command.verb = "light"
    /\ ~result.success
    /\ slotGet(sessions[result.session].player.equippedItems, "light_source") = "torch"
    /\ flagOn(sessions[result.session].player.flags, "lamp_on")

\* C19: examining an object whose ability_learned names a room-state flag not
\* yet set sets the flag and appends the skill to the examining player's skill
\* list if it is absent; once the flag is set an examine changes neither the
\* flag nor any skill list; no skill list ever holds a skill twice.
C19_SkillLearnedOnce ==
    /\ [](\A s \in DOMAIN sessions :
            \A i, j \in 1..Len(sessions[s].player.skills) :
                sessions[s].player.skills[i] = sessions[s].player.skills[j] => i = j)
    /\ [][\A s \in DOMAIN sessions :
            LET player == sessions[s].player
                roomId == player.location
                objects == RoomData[roomId].objects
                noun == result'.command.noun
                matching == {i \in 1..Len(objects) : matchesObject(objects[i], noun)}
                obj == objects[CHOOSE i \in matching : \A j \in matching : i <= j]
                skill == obj.stateChanges.ability_learned
                learned == skill \in DOMAIN rooms[roomId].state
                           /\ rooms[roomId].state[skill]
                others == \A t \in DOMAIN sessions \ {s} :
                              sessions'[t].player.skills = sessions[t].player.skills
            IN  (/\ callsVerb(s, "examine") \/ callsVerb(s, "look")
                 /\ hasRoom(roomId)
                 /\ noun # undefined
                 /\ matching # {}
                 /\ skill # "")
                => /\ result'.success
                   /\ others
                   /\ rooms'[roomId].state[skill]
                   /\ IF learned \/ \E i \in 1..Len(player.skills) : player.skills[i] = skill
                      THEN sessions'[s].player.skills = player.skills
                      ELSE sessions'[s].player.skills = Append(player.skills, skill)
                   /\ learned => rooms' = rooms]_vars

\* C19 witness: the saved player who has the skill examined the mural first,
\* which set the flag, and the other player's examine after it has just
\* succeeded.
C19_Witness ==
    /\ rooms["ROOM_001"].state.climbing
    /\ sessions["s1"].player.skills = <<"climbing">>
    /\ sessions["s1"].player.name = "Cleo"
    /\ result.session = "s2"
    /\ result.command.verb = "examine"
    /\ result.success
    /\ sessions["s2"].player.name = "Ann"

\* Whether some room holds the object with its taken flag true
isTaken(objectId) ==
    \E id \in DOMAIN rooms :
        objectId \in DOMAIN rooms[id].taken /\ rooms[id].taken[objectId]

\* C20: a drop removes one matching entry from the issuing player's inventory
\* and changes nothing else, no taken flag in particular; a dropped object whose
\* taken flag is true, as it is from its take until a restart, is then listed
\* in no room description, and is in the inventory no more if it was there once.
C20_DropRemovesOneEntryOnly ==
    [][\A s \in DOMAIN sessions :
          LET player == sessions[s].player
              after == sessions'[s].player
              noun == result'.command.noun
              matching == IF noun = undefined THEN {}
                          ELSE {i \in 1..Len(player.inventory) :
                                   \/ player.inventory[i].id = noun
                                   \/ includes(toLowerCase(player.inventory[i].name),
                                               toLowerCase(noun))}
          IN  callsVerb(s, "drop") =>
                  /\ rooms' = rooms
                  /\ worldState' = worldState
                  /\ sessions' = [sessions EXCEPT ![s].player.inventory = after.inventory]
                  /\ IF matching = {}
                     THEN ~result'.success /\ after.inventory = player.inventory
                     ELSE /\ result'.success
                          /\ \E i \in matching :
                                LET item == player.inventory[i]
                                IN  /\ after.inventory = removeAt(player.inventory, i)
                                    /\ isTaken(item.id) =>
                                          /\ \E id \in DOMAIN rooms' :
                                                /\ item.id \in DOMAIN rooms'[id].taken
                                                /\ rooms'[id].taken[item.id]
                                          /\ \A t \in DOMAIN sessions :
                                                ~seqIncludes(
                                                    seenList(getRoomDescription(
                                                        sessions[t].player.location,
                                                        sessions[t].player, TRUE)),
                                                    item.name)
                                    /\ count([k \in 1..Len(player.inventory) |->
                                                 player.inventory[k].id], item.id) = 1
                                       => \A k \in 1..Len(after.inventory) :
                                              after.inventory[k].id # item.id]_vars

\* C20 witness: the lamp has just been dropped by the player who took it; its
\* taken flag is true and no player has it in the inventory or in a slot.
C20_Witness ==
    /\ result.session # "none"
    /\ result.command.verb = "drop"
    /\ result.success
    /\ rooms["ROOM_001"].taken["lamp"]
    /\ \A s \in DOMAIN sessions :
          /\ \A i \in 1..Len(sessions[s].player.inventory) :
                sessions[s].player.inventory[i].id # "lamp"
          /\ slotGet(sessions[s].player.equippedItems, "light_source") # "lamp"

\* The ids of the entries of an inventory
ids(inventory) == [k \in 1..Len(inventory) |-> inventory[k].id]

\* C21: an equip into an empty slot that succeeds records the item's id in the
\* slot and takes one entry of that id out of the inventory; an unequip of the
\* item in the slot succeeds, empties the slot and puts one entry of that id
\* into the inventory: after the two the slot is empty and the inventory holds
\* the id as often as before.
C21_EquipUnequipRoundTrip ==
    [][\A s \in DOMAIN sessions :
          LET player == sessions[s].player
              after == sessions'[s].player
              noun == result'.command.noun
              at == findIndex([index \in 1..Len(player.inventory) |->
                        matchesItem(player.inventory[index], noun)])
              item == player.inventory[at]
              held == {i \in 1..Len(player.equippedItems) :
                          matchesEquipped(player.equippedItems[i].id, noun)}
              worn == player.equippedItems[CHOOSE i \in held : \A j \in held : i <= j]
          IN  /\ (/\ callsVerb(s, "equip")
                  /\ noun # undefined
                  /\ result'.success
                  /\ slotGet(player.equippedItems, item.equipmentSlot) = undefined)
                 => /\ slotGet(after.equippedItems, item.equipmentSlot) = item.id
                    /\ count(ids(after.inventory), item.id)
                          = count(ids(player.inventory), item.id) - 1
                    /\ Len(after.inventory) = Len(player.inventory) - 1
              /\ (callsVerb(s, "unequip") /\ noun # undefined /\ held # {})
                 => /\ result'.success
                    /\ slotGet(after.equippedItems, worn.slot) = undefined
                    /\ count(ids(after.inventory), worn.id)
                          = count(ids(player.inventory), worn.id) + 1
                    /\ Len(after.inventory) = Len(player.inventory) + 1]_vars

\* C21 witness: the lamp, equipped into the empty slot, has just been
\* unequipped: the slot is empty and the inventory holds the lamp once.
C21_Witness ==
    /\ result.session # "none"
    /\ result.command.verb = "unequip"
    /\ result.success
    /\ sessions[result.session].player.equippedItems = <<>>
    /\ count(ids(sessions[result.session].player.inventory), "lamp") = 1

\* C22: a rest of a session in combat fails and leaves hp and mp; any other
\* rest raises hp by the smaller of the configured HP recovery and maxHp - hp,
\* and mp likewise, so hp <= maxHp and mp <= maxMp always, and a rest at full
\* hp and mp changes nothing of the player.
C22_RestHealsUpToMax ==
    /\ [](\A s \in DOMAIN sessions :
            /\ sessions[s].player.hp <= sessions[s].player.maxHp
            /\ sessions[s].player.mp <= sessions[s].player.maxMp)
    /\ [][\A s \in DOMAIN sessions :
            LET player == sessions[s].player
                after == sessions'[s].player
                missingHp == player.maxHp - player.hp
                missingMp == player.maxMp - player.mp
            IN  callsVerb(s, "rest") =>
                    IF sessions[s].inCombat
                    THEN /\ ~result'.success
                         /\ after.hp = player.hp
                         /\ after.mp = player.mp
                    ELSE /\ result'.success
                         /\ after.hp = player.hp + (IF restHpRecovery < missingHp
                                                    THEN restHpRecovery ELSE missingHp)
                         /\ after.mp = player.mp + (IF restMpRecovery < missingMp
                                                    THEN restMpRecovery ELSE missingMp)
                         /\ after = [player EXCEPT !.hp = after.hp, !.mp = after.mp]
                         /\ (missingHp = 0 /\ missingMp = 0) => after = player]_vars

\* C22 witness: the player who came back with 60 of 100 hp and 30 of 50 mp has
\* rested to exactly full hp and mp, the last rest being capped by what was
\* missing.
C22_Witness ==
    /\ result.session # "none"
    /\ result.command.verb = "rest"
    /\ result.success
    /\ sessions[result.session].player.name = Veteran.name
    /\ sessions[result.session].player.hp = sessions[result.session].player.maxHp
    /\ sessions[result.session].player.mp = sessions[result.session].player.maxMp
    /\ includes(result.message, "HP recovered: 15")

\* C23: between restarts the rooms only gain flags: no step but a restart
\* changes a taken flag or a room-state flag from true to false.
C23_RoomFlagsMonotonic ==
    [][\A id \in DOMAIN rooms :
          /\ \A o \in DOMAIN rooms[id].taken :
                (rooms[id].taken[o] /\ ~rooms'[id].taken[o])
                    => result'.command.verb = "restart"
          /\ \A k \in DOMAIN rooms[id].state :
                (rooms[id].state[k] /\ ~(k \in DOMAIN rooms'[id].state
                                         /\ rooms'[id].state[k]))
                    => (result'.command.verb = "restart" /\ k = "visited")]_vars

\* C23 witness: with the lamp taken, the skill flag of the first room set and
\* the second room still visited, a session has dropped the lamp.
C23_Witness ==
    /\ rooms["ROOM_001"].taken["lamp"]
    /\ rooms["ROOM_001"].state.climbing
    /\ rooms["ROOM_002"].state.visited
    /\ result.session # "none"
    /\ result.command.verb = "drop"
    /\ result.success

\* C25: a command whose verb the parser accepts and the router has no case for
\* fails with the "I don't know how to" message naming the verb, and changes no
\* player, session, room or world state.
C25_UnroutedVerbFailsUnchanged ==
    [][\A s \in DOMAIN sessions :
          (/\ calls(s)
           /\ result'.command.valid
           /\ result'.command.verb \notin RoutedVerbs)
              => /\ ~result'.success
                 /\ result'.message
                        = "I don't know how to \"" \o result'.command.verb \o "\"."
                 /\ UNCHANGED <<sessions, rooms, worldState, startingRoom>>]_vars

\* C25 witness: "put lamp in box", which the parser accepts with its objects
\* split, has been answered while the player holds the lamp.
C25_Witness ==
    /\ result.session = "s1"
    /\ result.command.valid
    /\ result.command.verb = "put"
    /\ result.command.noun = "lamp"
    /\ result.command.indirectObject = "box"
    /\ ~result.success
    /\ Len(sessions["s1"].player.inventory) = 1

\* C29: parse returns valid=false exactly when the trimmed input is empty or
\* its first token is no key of the verb table; every invalid result carries a
\* non-empty error message, naming the unknown token; and processCommand turns
\* every invalid parse into a failure carrying that message.
C29_InvalidParseReported ==
    [][\A s \in DOMAIN sessions :
          LET command == result'.command
              normalized == trim(toLowerCase(command.raw))
              firstToken == tokenize(normalized)[1]
              unknown == normalized # "" /\ firstToken \notin DOMAIN VERB_SYNONYMS
          IN  calls(s) =>
                /\ ~threw(command)
                /\ ~command.valid <=> (normalized = "" \/ unknown)
                /\ ~command.valid =>
                      /\ command.errorMessage \notin {undefined, ""}
                      /\ unknown => includes(command.errorMessage, firstToken)
                      /\ ~result'.success
                      /\ result'.message = command.errorMessage]_vars

\* C30: an input whose first token is a direction word or letter parses to the
\* verb go with the full direction name as noun, valid, whatever follows it.
C30_DirectionShortcuts ==
    [][\A s \in DOMAIN sessions :
          LET command == result'.command
              tokens == tokenize(trim(toLowerCase(command.raw)))
              full == [n |-> "north", north |-> "north", s |-> "south",
                       south |-> "south", e |-> "east", east |-> "east",
                       w |-> "west", west |-> "west", u |-> "up", up |-> "up",
                       d |-> "down", down |-> "down"]
          IN  (calls(s) /\ Len(tokens) > 0 /\ tokens[1] \in DirectionTokens)
                => /\ command.valid
                   /\ command.verb = "go"
                   /\ command.noun = full[tokens[1]]
                   /\ command.preposition = undefined
                   /\ command.indirectObject = undefined
                   /\ command.errorMessage = undefined]_vars

\* C30 witness: "up to the roof" has been parsed as go up.
C30_Witness ==
    /\ result.session = "s1"
    /\ result.command.raw = "up to the roof"
    /\ result.command.verb = "go"
    /\ result.command.noun = "up"

\* C28: for each command handed to processCommand the transport sends, to the
\* issuing session only and in this order, exactly one response carrying the
\* result's message unchanged, then a state update exactly when the result has
\* state changes or a room change, then a combat start exactly when the result
\* triggered combat.
C28_ResponseThenUpdateThenCombat ==
    [][\A s \in DOMAIN sessions :
          LET update == result'.stateChanges # {} \/ result'.roomChanged
              combat == result'.combatTriggered
              types == [i \in 1..Len(sent') |-> sent'[i].type]
          IN  calls(s) =>
                /\ \A i \in 1..Len(sent') : sent'[i].to = s
                /\ Len(sent') >= 1
                /\ sent'[1].type = "response"
                /\ sent'[1].text = result'.message
                /\ types = <<"response">>
                             \o (IF update THEN <<"state_update">> ELSE <<>>)
                             \o (IF combat THEN <<"combat_start">> ELSE <<>>)]_vars

\* C24: the three flag scopes are independent.  A go through an exit with a
\* state requirement succeeds exactly when the world flag of that id is set,
\* whatever the player's flags and the rooms' state flags of the same key are;
\* no command writes a world flag; and setting a world flag changes no player
\* and no room.
C24_FlagScopesIndependent ==
    [][(\A s \in DOMAIN sessions :
            LET player == sessions[s].player
                noun == result'.command.noun
                exits == RoomData[player.location].exits
            IN  /\ calls(s) => worldState' = worldState
                /\ (/\ callsVerb(s, "go")
                    /\ ~sessions[s].inCombat
                    /\ noun \in DOMAIN exits
                    /\ exits[noun].requires.type = "state")
                      => (result'.success
                            <=> (/\ exits[noun].requires.id \in DOMAIN worldState
                                 /\ worldState[exits[noun].requires.id])))
       /\ ((worldState' # worldState) => (sessions' = sessions /\ rooms' = rooms))]_vars

\* C24 witness: with the lamp lit (player flag lamp_on) and the skill learned
\* (room-state flag climbing) while no world flag is set, the gate asking for
\* lamp_on has just refused the player.
C24_Witness ==
    /\ flagOn(sessions["s1"].player.flags, "lamp_on")
    /\ rooms["ROOM_001"].state.climbing
    /\ ~flagOn(worldState, "lamp_on")
    /\ ~flagOn(worldState, "climbing")
    /\ sessions["s1"].player.location = "ROOM_003"
    /\ result.command.verb = "go"
    /\ result.command.noun = "north"
    /\ ~result.success

\* The text a room description opens with, by the priority of its sources
openingText(roomId, player, verbose) ==
    LET texts == RoomData[roomId].descriptions
        variants == texts.dynamicVariants
        set == {i \in 1..Len(variants) :
                    /\ variants[i][1] \in DOMAIN rooms[roomId].state
                    /\ rooms[roomId].state[variants[i][1]]}
        first == CHOOSE i \in set : \A j \in set : i <= j
        unvisited == \A i \in 1..Len(player.visitedRooms) : player.visitedRooms[i] # roomId
    IN  IF set # {} THEN variants[first][2]
        ELSE IF ~RoomData[roomId].lighting.isLit THEN texts.long
        ELSE IF verbose \/ unvisited THEN (IF unvisited THEN texts.initial ELSE texts.long)
        ELSE IF texts.visited # "" THEN texts.visited
        ELSE texts.short

\* Whether text is the opening followed by nothing or by further paragraphs
opensWith(text, opening) ==
    /\ startsWith(text, opening)
    /\ LET rest == SubSeq(text, Len(opening) + 1, Len(text))
       IN  rest = "" \/ startsWith(rest, "\n\n")

\* The message of a go without the travel text of the exit taken
afterTravelText(message) ==
    IF startsWith(message, "You head north.\n\n")
    THEN SubSeq(message, Len("You head north.\n\n") + 1, Len(message))
    ELSE message

\* C26: a description given with light opens with the first dynamic variant in
\* declared order whose room-state flag is set; else with the long text in a
\* naturally unlit room; else, when verbose or unvisited, with the initial text
\* if unvisited and the long text if visited; else with the visited text, or
\* the short text when the visited text is empty.
C26_OpeningTextPriority ==
    \A s \in DOMAIN sessions :
        LET player == sessions[s].player
            roomId == player.location
        IN  (/\ result.session = s
             /\ result.success
             /\ hasRoom(roomId)
             /\ hasLight(roomId, player))
              => /\ (result.command.verb = "look" /\ result.command.noun = undefined)
                      => opensWith(result.message, openingText(roomId, player, TRUE))
                 /\ result.command.verb = "go"
                      => opensWith(afterTravelText(result.message),
                                   openingText(roomId, player, FALSE))

\* C26 witness: the player has walked back into the lit room whose visited
\* text is empty, and was given its short text.
C26_Witness ==
    /\ result.session = "s1"
    /\ result.command.verb = "go"
    /\ result.success
    /\ sessions["s1"].player.location = "ROOM_003"
    /\ opensWith(result.message, "Platform.")

\* The objects a lit description lists: those not taken that are always
\* visible, or conditionally visible with their light requirement met
listedObjects(roomId, player) ==
    LET objects == RoomData[roomId].objects
        shown(obj) == /\ ~rooms[roomId].taken[obj.id]
                      /\ obj.visibility # "hidden"
                      /\ \/ obj.visibility = "always"
                         \/ /\ obj.visibility = "conditional"
                            /\ obj.requiresLight => hasLight(roomId, player)
    IN  SelectSeq(objects, shown)

\* The directions a lit description lists: the keys of the visible exits
listedExits(roomId) ==
    LET room == RoomData[roomId]
    IN  SelectSeq(room.exitOrder, LAMBDA key : room.exits[key].visible = TRUE)

\* The two lines as the lists above demand them, each left out when empty
listingLines(roomId, player) ==
    LET objects == listedObjects(roomId, player)
        exits == listedExits(roomId)
    IN  (IF objects = <<>> THEN ""
         ELSE "\n\nYou can see: "
              \o join([i \in 1..Len(objects) |-> objects[i].name], ", "))
        \o (IF exits = <<>> THEN "" ELSE "\n\nExits: " \o join(exits, ", "))

\* Whether text is the opening, then exactly the two lines, then paragraphs
\* that are no such lines
listsExactly(text, opening, lines) ==
    /\ startsWith(text, opening \o lines)
    /\ LET rest == SubSeq(text, Len(opening \o lines) + 1, Len(text))
       IN  /\ rest = "" \/ startsWith(rest, "\n\n")
           /\ ~includes(rest, "You can see:")
           /\ ~includes(rest, "Exits:")

\* C27: in a description given with light the line "You can see:" lists
\* exactly the objects not taken whose visibility is always, or conditional
\* with the light requirement met, and never a hidden one; the line "Exits:"
\* lists exactly the keys of the exits that are visible; and each line is left
\* out when its list is empty.
C27_ListsVisibleObjectsAndExits ==
    \A s \in DOMAIN sessions :
        LET player == sessions[s].player
            roomId == player.location
        IN  (/\ result.session = s
             /\ result.success
             /\ hasRoom(roomId)
             /\ hasLight(roomId, player))
              => /\ (result.command.verb = "look" /\ result.command.noun = undefined)
                      => listsExactly(result.message,
                                      openingText(roomId, player, TRUE),
                                      listingLines(roomId, player))
                 /\ result.command.verb = "go"
                      => listsExactly(afterTravelText(result.message),
                                      openingText(roomId, player, FALSE),
                                      listingLines(roomId, player))

\* C27 witness: the player looks around the lit room whose only object is
\* hidden and one of whose exits is hidden: no object line, and an exit line
\* without the hidden exit.
C27_Witness ==
    /\ result.session = "s1"
    /\ result.command.verb = "look"
    /\ result.command.noun = undefined
    /\ sessions["s1"].player.location = "ROOM_003"
    /\ ~includes(result.message, "You can see:")
    /\ includes(result.message, "\n\nExits: down, east, north, south, hatch")

\* C31: two keys of the verb table that map to the same canonical verb parse,
\* followed by the same tokens, to the same verb.
C31_SynonymsResolveAlike ==
    \A s \in DOMAIN sessions :
        LET raw == result.command.raw
            key == tokenize(raw)[1]
            tail == SubSeq(raw, Len(key) + 1, Len(raw))
        IN  (result.session = s /\ ~threw(result.command))
              => \A other \in DOMAIN VERB_SYNONYMS :
                    VERB_SYNONYMS[other] = VERB_SYNONYMS[key]
                        => /\ parseInput(other \o tail).valid = result.command.valid
                           /\ parseInput(other \o tail).verb = result.command.verb

\* C31 witness: "grab the foo on bar" has been parsed to the verb take, as
\* "take the foo on bar" is.
C31_Witness ==
    /\ result.session = "s1"
    /\ result.command.raw = "grab the foo on bar"
    /\ result.command.verb = "take"
    /\ VERB_SYNONYMS["grab"] = VERB_SYNONYMS["take"]
    /\ parseInput("take the foo on bar").verb = "take"

\* C32: with the determiners removed from the tokens after the verb, parse
\* splits at the first preposition only: the tokens before it are the noun and
\* the tokens after it, later prepositions included, the indirect object; when
\* the first remaining token is the preposition, the noun is everything after it
\* and there is no indirect object; without a preposition all remaining tokens
\* are the noun; without remaining tokens the command is valid and has no noun.
C32_SplitAtFirstPreposition ==
    \A s \in DOMAIN sessions :
        LET command == result.command
            textOf(tokens) == IF tokens = <<>> THEN undefined ELSE join(tokens, " ")
            rest == SelectSeq(Tail(tokenize(trim(toLowerCase(command.raw)))),
                              LAMBDA t : t \notin ARTICLES)
            at == {i \in 1..Len(rest) : rest[i] \in PREPOSITIONS}
            first == CHOOSE i \in at : \A j \in at : i <= j
        IN  (/\ result.session = s
             /\ command.valid
             /\ tokenize(trim(toLowerCase(command.raw)))[1] \notin DirectionTokens)
              => IF rest = <<>> THEN
                     /\ command.noun = undefined
                     /\ command.preposition = undefined
                     /\ command.indirectObject = undefined
                 ELSE IF at = {} THEN
                     /\ command.noun = textOf(rest)
                     /\ command.preposition = undefined
                     /\ command.indirectObject = undefined
                 ELSE IF first = 1 THEN
                     /\ command.noun = textOf(Tail(rest))
                     /\ command.preposition = rest[1]
                     /\ command.indirectObject = undefined
                 ELSE
                     /\ command.noun = textOf(SubSeq(rest, 1, first - 1))
                     /\ command.preposition = rest[first]
                     /\ command.indirectObject
                            = textOf(SubSeq(rest, first + 1, Len(rest)))

\* C32 witness: "put the lamp in the box on table" has been split at "in", the
\* later "on" staying in the indirect object.
C32_Witness ==
    /\ result.session = "s1"
    /\ result.command.raw = "put the lamp in the box on table"
    /\ result.command.noun = "lamp"
    /\ result.command.preposition = "in"
    /\ result.command.indirectObject = "box on table"

\* How many inventory entries and equipped slots of a player hold the object
held(player, objectId) ==
    Cardinality({i \in 1..Len(player.inventory) : player.inventory[i].id = objectId})
    + Cardinality({i \in 1..Len(player.equippedItems) :
                      player.equippedItems[i].id = objectId})

RECURSIVE heldByAll(_, _)
heldByAll(among, objectId) ==
    IF among = {} THEN 0
    ELSE LET s == CHOOSE t \in among : TRUE
         IN  held(sessions[s].player, objectId) + heldByAll(among \ {s}, objectId)

\* C33: an object id is held at most once: the inventory entries and equipped
\* slots holding it, counted over all sessions, never number more than one.
C33_ObjectHeldAtMostOnce ==
    \A id \in DOMAIN rooms :
        \A o \in DOMAIN rooms[id].taken : heldByAll(DOMAIN sessions, o) <= 1

\* C34: an examine that matches an object teaching a skill and succeeds leaves
\* that skill in the examining player's skill list, for every session and after
\* restarts.
C34_ExaminerHasSkill ==
    [][\A s \in DOMAIN sessions :
          LET player == sessions[s].player
              objects == RoomData[player.location].objects
              noun == result'.command.noun
              at == findIndex([index \in 1..Len(objects) |->
                        LET o == objects[index] IN matchesObject(o, noun)])
              skillId == objects[at].stateChanges.ability_learned
          IN  (/\ calls(s)
               /\ result'.command.verb \in {"examine", "look"}
               /\ noun # undefined
               /\ hasRoom(player.location)
               /\ at # 0
               /\ skillId # ""
               /\ result'.success)
                => seqIncludes(sessions'[s].player.skills, skillId)]_vars

\* C35: a go into a naturally lit room without an active dynamic variant that
\* the player has never visited describes the room with its initial text.
C35_FirstVisitShowsInitialText ==
    [][\A s \in DOMAIN sessions :
          LET player == sessions[s].player
              destination == sessions'[s].player.location
              variants == RoomData[destination].descriptions.dynamicVariants
          IN  (/\ callsVerb(s, "go")
               /\ result'.success
               /\ hasRoom(destination)
               /\ RoomData[destination].lighting.isLit
               /\ \A i \in 1..Len(variants) : ~flagOn(rooms[destination].state, variants[i][1])
               /\ ~seqIncludes(player.visitedRooms, destination))
                => opensWith(afterTravelText(result'.message),
                             RoomData[destination].descriptions.initial)]_vars

\* C36: a command of one session changes no other session's player state and
\* no other session's in-combat flag, restart included; what it changes beyond
\* its own session are only the rooms' taken flags and state flags.
C36_OtherSessionsUntouched ==
    [][\A s \in DOMAIN sessions :
          calls(s) =>
              /\ \A t \in DOMAIN sessions \ {s} : sessions'[t] = sessions[t]
              /\ worldState' = worldState
              /\ startingRoom' = startingRoom
              /\ DOMAIN rooms' = DOMAIN rooms]_vars

\* C36 witness: one session has restarted while the other stands in the dark
\* room, in combat, holding the lamp.
C36_Witness ==
    /\ result.session = "s1"
    /\ result.command.verb = "restart"
    /\ sessions["s2"].player.location = "ROOM_002"
    /\ sessions["s2"].inCombat
    /\ \E i \in 1..Len(sessions["s2"].player.inventory) :
           sessions["s2"].player.inventory[i].id = "lamp"
    /\ ~rooms["ROOM_001"].taken["lamp"]

\* C37: no command clears a session's in-combat flag: once a go has triggered
\* combat the session stays in combat through every later command, attack and
\* restart included, and every later rest of that session is refused.
C37_CombatNeverEnds ==
    [][\A s \in DOMAIN sessions :
          sessions[s].inCombat =>
              /\ sessions'[s].inCombat
              /\ callsVerb(s, "rest") =>
                    /\ ~result'.success
                    /\ result'.message = "You can't rest during combat!"
                    /\ sessions'[s] = sessions[s]]_vars

\* C37 witness: back in the first room after a restart, still in combat, the
\* player has been refused a rest.
C37_Witness ==
    /\ result.session = "s1"
    /\ result.command.verb = "rest"
    /\ ~result.success
    /\ sessions["s1"].inCombat
    /\ sessions["s1"].player.location = "ROOM_001"
    /\ sessions["s1"].player.visitedRooms = <<>>

\* C38: a take succeeds only on an object the room description would list for
\* the player: not without light, not on a hidden object, and not on a
\* conditional object whose light requirement is unmet.
C38_TakeOnlyWhatIsListed ==
    [][\A s \in DOMAIN sessions :
          LET player == sessions[s].player
              roomId == player.location
              listed == listedObjects(roomId, player)
          IN  (callsVerb(s, "take") /\ result'.success) =>
                  \A o \in DOMAIN rooms[roomId].taken :
                      (~rooms[roomId].taken[o] /\ rooms'[roomId].taken[o])
                          => /\ hasLight(roomId, player)
                             /\ \E i \in 1..Len(listed) : listed[i].id = o]_vars

\* C39: "turn on X" and "turn X on" give the result and the state change of
\* "light X", "turn off X" and "turn X off" those of "extinguish X"; a turn with
\* another preposition, or with a noun and no on or off, fails and changes
\* nothing.
C39_TurnIsLightOrExtinguish ==
    [][\A s \in DOMAIN sessions :
          LET typed == result'.command.raw
              twin == [i \in {"turn on lamp", "turn lamp on", "turn off lamp",
                              "turn lamp off", "turn on the lantern",
                              "turn torch off"} |->
                          CASE i \in {"turn on lamp", "turn lamp on"} -> "light lamp"
                            [] i \in {"turn off lamp", "turn lamp off"} -> "extinguish lamp"
                            [] i = "turn on the lantern" -> "light lantern"
                            [] i = "turn torch off" -> "extinguish torch"]
              same == parseInput(twin[typed])
              asTyped == [result'.command EXCEPT !.noun = same.noun]
          IN  callsVerb(s, "turn") =>
                IF typed \in DOMAIN twin
                THEN IF same.verb = "light" THEN handleLight(s, asTyped)
                     ELSE handleExtinguish(s, asTyped)
                ELSE /\ ~result'.success
                     /\ UNCHANGED <<sessions, rooms, worldState>>]_vars

\* C39 witness: "turn lamp on" has switched the equipped lamp on, with the
\* message "light lamp" gives.
C39_Witness ==
    /\ result.session = "s1"
    /\ result.command.raw = "turn lamp on"
    /\ result.success
    /\ result.message = "You turn on the flashlight. A bright beam illuminates the area."
    /\ flagOn(sessions["s1"].player.flags, "lamp_on")

\* C40: once the transport has taken a player's name and placed them in the
\* starting room, the player's current room is in their visitedRooms list,
\* after every command, restart included.
C40_LocationIsVisited ==
    \A s \in DOMAIN sessions :
        sessions[s].player.name # "Unknown"
            => seqIncludes(sessions[s].player.visitedRooms, sessions[s].player.location)
=============================================================================
